---- MODULE Spec2Model ----
(***************************************************************************)
(* Vacation manager (Corolario/ferias): the month weight table, the day    *)
(* walk of calculate_vacation_points, the employees/vacations store and    *)
(* get_employee_ranking of src/models.py.                                  *)
(*                                                                         *)
(* Python values are modelled as follows.                                  *)
(*   datetime.date  [type |-> "date", year, month, day]                    *)
(*   str            [type |-> "str", chars |-> a tuple of 1-char strings]  *)
(*   dict           a sequence of [key, value] records in insertion order  *)
(*   exception      a record [status |-> "<ExceptionName>"]                *)
(***************************************************************************)
EXTENDS Integers, Sequences, FiniteSets, TLC

VARIABLES
    \* ---- one call of calculate_vacation_points and its split ----
    arg_start,       \* argument start_date of the call under study
    arg_end,         \* argument end_date of the call under study
    arg_split,       \* k: last day of the left sub-period, or NoValue
    whole,           \* outcome of calculate_vacation_points(s, e), or NoValue
    left,            \* outcome of calculate_vacation_points(s, k), or NoValue
    right,           \* outcome of calculate_vacation_points(k + 1 day, e), or NoValue
    month_points,    \* the mapping the last call got from get_month_points(), or NoValue
    \* ---- the SQLite store ----
    employees,       \* table employees: set of rows [id, name]
    vacations,       \* table vacations: set of rows [id, employee_id, start_date, end_date]
    seq_employees,   \* sqlite_sequence of employees (AUTOINCREMENT)
    seq_vacations,   \* sqlite_sequence of vacations (AUTOINCREMENT)
    \* ---- the last call of get_employee_ranking ----
    employees_df,    \* rows read by employees_query, in the order returned
    vacations_df,    \* rows read by vacations_query, in the order returned
    ranking_data,    \* outcome of the call, or NoValue
    \* ---- the last call of a store function ----
    last_call,       \* its name and what it returned or raised; NoValue
                     \* before the first call and after a ranking
    \* ---- concurrent requests ----
    requests,        \* per request thread: the position in
                     \* get_employee_ranking and its local variables
    viewer,          \* the mapping object a page got from get_month_points()
    heap,            \* the month weight mapping objects: address -> dict
    \* ---- the Streamlit application and the Flask views ----
    old_whole,       \* outcome of oldapp.calculate_vacation_points on the
                     \* period arg_start..arg_end, or NoValue
    view,            \* what the last /ranking or /ferias view handed to its
                     \* template, or the exception it raised; NoValue before
                     \* the first
    session,         \* the Flask session of the browser: a mapping
    users,           \* table users: rows [username, password_hash]
    last_login,      \* the most recent login POST of the session, and the
                     \* most recent one that reached verify_login
    init_db_runs,    \* for each process, where its run of init_db stands
    ranking_call     \* a call of get_employee_ranking taken read by read:
                     \* where it stands, the employees it read, and the
                     \* stores there were since it began

vars == <<arg_start, arg_end, arg_split, whole, left, right, month_points,
          employees, vacations, seq_employees, seq_vacations,
          employees_df, vacations_df, ranking_data, last_call,
          requests, viewer, heap,
          old_whole, view, session, users, last_login, init_db_runs, ranking_call>>

calcVars == <<arg_start, arg_end, arg_split, whole, left, right, month_points>>
storeVars == <<employees, vacations, seq_employees, seq_vacations>>
rankVars == <<employees_df, vacations_df, ranking_data>>
concVars == <<requests, viewer, heap>>
appVars == <<old_whole, view, session, users, last_login, init_db_runs, ranking_call>>

NoValue == [status |-> "none"]
OverflowError == [status |-> "OverflowError"]
ValueError == [status |-> "ValueError"]
KeyError == [status |-> "KeyError"]

Raised(x) == x.status \in {"OverflowError", "ValueError", "KeyError"}

\* "return value" in function call, value one of "True", "False", "None"
Returns(call, value) == [status |-> "returned", call |-> call, value |-> value]

\* an exception leaving function call
Raises(call, exception) == [status |-> exception.status, call |-> call]

----------------------------------------------------------------------------
(* datetime.date, as CPython implements it                                 *)

MINYEAR == 1
MAXYEAR == 9999
\* date.max.toordinal()
MAXORDINAL == 3652059

DAYS_IN_MONTH == <<31, 28, 31, 30, 31, 30, 31, 31, 30, 31, 30, 31>>
DAYS_BEFORE_MONTH == <<0, 31, 59, 90, 120, 151, 181, 212, 243, 273, 304, 334>>

is_leap(year) == year % 4 = 0 /\ (year % 100 # 0 \/ year % 400 = 0)

days_before_year(year) ==
    LET y == year - 1
    IN y * 365 + (y \div 4) - (y \div 100) + (y \div 400)

days_in_month(year, month) ==
    IF month = 2 /\ is_leap(year) THEN 29 ELSE DAYS_IN_MONTH[month]

days_before_month(year, month) ==
    DAYS_BEFORE_MONTH[month] + (IF month > 2 /\ is_leap(year) THEN 1 ELSE 0)

ymd2ord(year, month, day) ==
    days_before_year(year) + days_before_month(year, month) + day

MkDate(year, month, day) ==
    [type |-> "date", year |-> year, month |-> month, day |-> day]

\* the proleptic Gregorian (year, month, day) of ordinal n, 1 = 0001-01-01
ord2ymd(n) ==
    LET n0 == n - 1
        n400 == n0 \div 146097
        r400 == n0 % 146097
        n100 == r400 \div 36524
        r100 == r400 % 36524
        n4 == r100 \div 1461
        r4 == r100 % 1461
        n1 == r4 \div 365
        r1 == r4 % 365
        year == n400 * 400 + 1 + n100 * 100 + n4 * 4 + n1
        leapyear == n1 = 3 /\ (n4 # 24 \/ n100 = 3)
        month0 == (r1 + 50) \div 32
        preceding0 == DAYS_BEFORE_MONTH[month0]
                        + (IF month0 > 2 /\ leapyear THEN 1 ELSE 0)
        month == IF preceding0 > r1 THEN month0 - 1 ELSE month0
        preceding == IF preceding0 > r1
                     THEN preceding0 - (DAYS_IN_MONTH[month]
                            + (IF month = 2 /\ leapyear THEN 1 ELSE 0))
                     ELSE preceding0
    IN IF n1 = 4 \/ n100 = 4
       THEN MkDate(year - 1, 12, 31)
       ELSE MkDate(year, month, r1 - preceding + 1)

toordinal(d) == ymd2ord(d.year, d.month, d.day)

\* date + timedelta(days): OverflowError outside date.min .. date.max
DateAddDays(d, days) ==
    LET o == toordinal(d) + days
    IN IF 0 < o /\ o <= MAXORDINAL THEN ord2ymd(o) ELSE OverflowError

\* (end - start).days
DateSubDays(a, b) == toordinal(a) - toordinal(b)

\* date comparison: lexicographic on (year, month, day)
DateLT(a, b) ==
    \/ a.year < b.year
    \/ a.year = b.year /\ a.month < b.month
    \/ a.year = b.year /\ a.month = b.month /\ a.day < b.day

DateLE(a, b) == a = b \/ DateLT(a, b)

----------------------------------------------------------------------------
(* str <-> date: date.isoformat (the sqlite3 adapter) and strptime         *)

DigitChars == <<"0", "1", "2", "3", "4", "5", "6", "7", "8", "9">>

IsDigit(c) == \E i \in 1..10 : DigitChars[i] = c

DigitVal(c) == (CHOOSE i \in 1..10 : DigitChars[i] = c) - 1

MkStr(chars) == [type |-> "str", chars |-> chars]

\* the decimal digit of n at position 10^k, as a character
DigitAt(n, tenPow) == DigitChars[((n \div tenPow) % 10) + 1]

\* date.isoformat(): "%04d-%02d-%02d"
isoformat(d) ==
    MkStr(<<DigitAt(d.year, 1000), DigitAt(d.year, 100),
            DigitAt(d.year, 10), DigitAt(d.year, 1),
            "-",
            DigitAt(d.month, 10), DigitAt(d.month, 1),
            "-",
            DigitAt(d.day, 10), DigitAt(d.day, 1)>>)

\* datetime.strptime(s, '%Y-%m-%d').date() on a zero-padded 10-character
\* string; anything else the model feeds it is a ValueError
strptime(s) ==
    LET c == s.chars
        wellFormed ==
            /\ Len(c) = 10
            /\ c[5] = "-" /\ c[8] = "-"
            /\ \A i \in {1, 2, 3, 4, 6, 7, 9, 10} : IsDigit(c[i])
        year == DigitVal(c[1]) * 1000 + DigitVal(c[2]) * 100
                  + DigitVal(c[3]) * 10 + DigitVal(c[4])
        month == DigitVal(c[6]) * 10 + DigitVal(c[7])
        day == DigitVal(c[9]) * 10 + DigitVal(c[10])
    IN IF /\ wellFormed
          /\ MINYEAR <= year /\ year <= MAXYEAR
          /\ 1 <= month /\ month <= 12
          /\ 1 <= day /\ day <= days_in_month(year, month)
       THEN MkDate(year, month, day)
       ELSE ValueError

\* "if isinstance(x, str): x = datetime.strptime(x, '%Y-%m-%d').date()"
AsDate(x) == IF x.type = "str" THEN strptime(x) ELSE x

----------------------------------------------------------------------------
(* dict: insertion-ordered sequence of [key, value]                        *)

DictHas(d, k) == \E i \in 1..Len(d) : d[i].key = k

DictGet(d, k) == d[CHOOSE i \in 1..Len(d) : d[i].key = k].value

\* d[k] = v: a new key goes last, an existing key keeps its position
DictSet(d, k, v) ==
    IF DictHas(d, k)
    THEN [i \in 1..Len(d) |-> IF d[i].key = k THEN [key |-> k, value |-> v] ELSE d[i]]
    ELSE Append(d, [key |-> k, value |-> v])

DictKeys(d) == {d[i].key : i \in 1..Len(d)}

----------------------------------------------------------------------------
(* the month weight table and the scoring of one period                    *)

\* a table with the low-season weight of August lost
get_month_points_flat ==
    <<[key |-> 1, value |-> 11], [key |-> 2, value |-> 11],
      [key |-> 3, value |-> 7], [key |-> 4, value |-> 5],
      [key |-> 5, value |-> 5], [key |-> 6, value |-> 6],
      [key |-> 7, value |-> 11], [key |-> 8, value |-> 5],
      [key |-> 9, value |-> 5], [key |-> 10, value |-> 6],
      [key |-> 11, value |-> 6], [key |-> 12, value |-> 11]>>

\* the dict literal of get_month_points(), in the order it is written
get_month_points ==
    <<[key |-> 1, value |-> 11], [key |-> 2, value |-> 11],
      [key |-> 3, value |-> 7], [key |-> 4, value |-> 5],
      [key |-> 5, value |-> 5], [key |-> 6, value |-> 6],
      [key |-> 7, value |-> 11], [key |-> 8, value |-> 3],
      [key |-> 9, value |-> 5], [key |-> 10, value |-> 6],
      [key |-> 11, value |-> 6], [key |-> 12, value |-> 11]>>

\* a count that restarts at every day: the membership test lost
CountDayReset(days_by_month, month) == DictSet(days_by_month, month, 1)

\* "if month not in days_by_month: days_by_month[month] = 0;
\*  days_by_month[month] += 1"
CountDay(days_by_month, month) ==
    LET d0 == IF ~DictHas(days_by_month, month)
              THEN DictSet(days_by_month, month, 0)
              ELSE days_by_month
    IN DictSet(d0, month, DictGet(d0, month) + 1)

\* a day-of-month increment that jumps to the 1st of the next month after
\* the 28th
NextDayNaive(current_date) ==
    IF current_date.day < 28
    THEN MkDate(current_date.year, current_date.month, current_date.day + 1)
    ELSE MkDate(current_date.year + (IF current_date.month = 12 THEN 1 ELSE 0),
                IF current_date.month < 12 THEN current_date.month + 1 ELSE 1,
                1)

\* "current_date = current_date + timedelta(days=1)"
NextDay(current_date) == DateAddDays(current_date, 1)

\* the loop variables after the body, or the exception of the addition
Advance(next, counted) ==
    IF next = OverflowError
    THEN OverflowError
    ELSE [status |-> "walking", current_date |-> next, days_by_month |-> counted]

\* one test of "while current_date <= end_date" and, when it holds, one
\* execution of the loop body
WalkStep(w, end_date) ==
    IF ~DateLE(w.current_date, end_date)
    THEN [status |-> "returned", days_by_month |-> w.days_by_month]
    ELSE Advance(NextDay(w.current_date),
                 CountDay(w.days_by_month, w.current_date.month))

\* most loop tests one walk is followed for; a walk that needs more is
\* left in status "walking" and counts as not having returned
WalkFuel == 1024

\* WalkStep repeated until the loop is left, at most fuel times (halving
\* keeps the evaluation shallow; the steps are taken in order)
RECURSIVE Iterate(_, _, _)
Iterate(w, end_date, fuel) ==
    IF w.status # "walking" \/ fuel = 0
    THEN w
    ELSE IF fuel = 1
         THEN WalkStep(w, end_date)
         ELSE Iterate(Iterate(w, end_date, fuel \div 2), end_date,
                      fuel - (fuel \div 2))

\* the loop of lines 248-259: the mapping built by the walk, or the
\* exception the date arithmetic raised
DayWalk(start_date, end_date) ==
    Iterate([status |-> "walking", current_date |-> start_date,
             days_by_month |-> <<>>], end_date, WalkFuel)

\* "=" written for "+="
AddPointsOverwrite(total_points, days, weight) == days * weight

\* "total_points += days * month_points[month]"
AddPoints(total_points, days, weight) == total_points + days * weight

\* "for month, days in days_by_month.items()": the total, or -1 when
\* month_points[month] raises KeyError
RECURSIVE PointsLoop(_, _, _, _)
PointsLoop(days_by_month, i, table, total_points) ==
    IF i > Len(days_by_month)
    THEN total_points
    ELSE IF ~DictHas(table, days_by_month[i].key)
         THEN -1
         ELSE PointsLoop(days_by_month, i + 1, table,
                         AddPoints(total_points, days_by_month[i].value,
                                   DictGet(table, days_by_month[i].key)))

\* lines 261-265: the pair returned for the mapping the walk built, or the
\* exception the walk or the weight lookup raised
ScoreWalk(walk, table) ==
    IF walk.status # "returned"
    THEN walk
    ELSE IF PointsLoop(walk.days_by_month, 1, table, 0) < 0
         THEN KeyError
         ELSE [status |-> "returned",
               total_points |-> PointsLoop(walk.days_by_month, 1, table, 0),
               days_by_month |-> walk.days_by_month]

\* lines 248-265 on the two dates
ScoreDates(s, e, table) ==
    IF s = ValueError \/ e = ValueError
    THEN ValueError
    ELSE ScoreWalk(DayWalk(s, e), table)

\* calculate_vacation_points(start_date, end_date): the returned pair, or
\* the exception raised
calculate_vacation_points(start_date, end_date) ==
    ScoreDates(AsDate(start_date), AsDate(end_date), get_month_points)

----------------------------------------------------------------------------
(* SpecCalc: calculate_vacation_points on bounded periods                  *)

\* longest period of the dense sample, in days after its start
MaxSpan == 40
\* length of the long periods, in days after their start: more than a year,
\* so that a month number recurs in the walk
LongSpan == 370

\* starts before a year end, a 29 February, a 28 February of a common and
\* of a century year, the low-season month and date.max
Anchors ==
    {MkDate(2023, 12, 28), MkDate(2024, 2, 20), MkDate(2023, 2, 20),
     MkDate(1900, 2, 20), MkDate(2024, 7, 25), MkDate(9999, 12, 27)}

LongAnchors == {MkDate(2023, 1, 20), MkDate(2024, 2, 10)}

\* the periods of the specification's concrete cases 1 and 2
CasePeriods ==
    { <<MkDate(2024, 1, 28), MkDate(2024, 2, 3)>>,
      <<MkDate(2023, 12, 30), MkDate(2024, 1, 2)>> }

\* the periods [s, e] scored, s <= e <= date.max
CalcPeriods ==
    ({<<s, DateAddDays(s, n)>> : s \in Anchors, n \in 0..MaxSpan}
        \cup {<<s, DateAddDays(s, LongSpan)>> : s \in LongAnchors}
        \cup CasePeriods)
        \ {<<s, OverflowError>> : s \in Anchors}

\* the two forms callers pass a period in: date objects (app.ranking) or
\* the strings read back from SQLite (get_employee_ranking)
ArgForms(p) == {p, <<isoformat(p[1]), isoformat(p[2])>>}

\* the request threads that compute a ranking at the same time
Requests == {"request 1", "request 2"}

\* where a month weight mapping can live: built for a call made by a
\* request thread or by the page, or built once for the module
Addresses == Requests \cup {"viewer", "module"}

\* a request thread outside get_employee_ranking
IdleRequest ==
    [pc |-> "idle", employees_df |-> <<>>, vacations_df |-> <<>>,
     ranking_data |-> <<>>, i |-> 0, emp_vacations |-> <<>>, j |-> 0,
     total_points |-> 0, total_days |-> 0, month_details |-> <<>>,
     month_points |-> "none", days_by_month |-> <<>>, k |-> 0, points |-> 0]

InitConc ==
    /\ requests = [p \in Requests |-> IdleRequest]
    /\ viewer = "none"
    /\ heap = [a \in Addresses |-> <<>>]

\* the processes that import the application, each calling init_db
MaxInitProcs == 2
InitProcs == 1..MaxInitProcs

\* how many times a process is started
MaxInitRuns == 2

\* no call and no request made; table users as init_db leaves it when it
\* creates the account 'admin' (models.py:57-59)
InitApp ==
    /\ old_whole = NoValue
    /\ view = NoValue
    /\ session = <<>>
    /\ users = {[username |-> MkStr(<<"a", "d", "m", "i", "n">>),
                 password_hash |->
                     [password |-> MkStr(<<"a", "d", "m", "i", "n", "1", "2", "3">>),
                      salt |-> "salt 1"]]}
    /\ last_login = [recent |-> NoValue, checked |-> NoValue]
    /\ init_db_runs = [p \in InitProcs |->
                          [pc |-> "done",
                           password_hash |->
                               [password |-> MkStr(<<"a", "d", "m", "i", "n", "1", "2", "3">>),
                                salt |-> "salt 1"],
                           runs |-> 1]]
    /\ ranking_call = [pc |-> "idle", employees_df |-> <<>>, instants |-> {}]

InitStore ==
    /\ employees = {}
    /\ vacations = {}
    /\ seq_employees = 0
    /\ seq_vacations = 0

InitRank ==
    /\ employees_df = <<>>
    /\ vacations_df = <<>>
    /\ ranking_data = NoValue

InitCalc ==
    /\ \E p \in CalcPeriods : \E a \in ArgForms(p) :
          /\ arg_start = a[1]
          /\ arg_end = a[2]
    /\ arg_split = NoValue
    /\ whole = NoValue
    /\ left = NoValue
    /\ right = NoValue
    /\ month_points = NoValue
    /\ InitStore
    /\ InitRank
    /\ last_call = NoValue
    /\ InitConc
    /\ InitApp

\* the caller scores the whole period
ScoreWhole ==
    /\ whole = NoValue
    /\ whole' = calculate_vacation_points(arg_start, arg_end)
    /\ month_points' = get_month_points
    /\ UNCHANGED <<arg_start, arg_end, arg_split, left, right>>
    /\ UNCHANGED <<storeVars, rankVars, last_call, concVars, appVars>>

\* the caller scores the two adjacent sub-periods [s, k] and [k + 1 day, e]
ScoreSplit ==
    /\ whole # NoValue
    /\ arg_split = NoValue
    /\ \E n \in 0..(DateSubDays(AsDate(arg_end), AsDate(arg_start)) - 1) :
          LET k == DateAddDays(AsDate(arg_start), n)
          IN /\ arg_split' = k
             /\ left' = calculate_vacation_points(arg_start, k)
             /\ right' = calculate_vacation_points(DateAddDays(k, 1), arg_end)
    /\ month_points' = get_month_points
    /\ UNCHANGED <<arg_start, arg_end, whole>>
    /\ UNCHANGED <<storeVars, rankVars, last_call, concVars, appVars>>

NextCalc == ScoreWhole \/ ScoreSplit

SpecCalc == InitCalc /\ [][NextCalc]_vars

----------------------------------------------------------------------------
(* the store: tables employees and vacations                               *)

\* AUTOINCREMENT ids handed out per table, at most
MaxEmployeeId == 2
MaxVacationId == 2

\* names typed into add_employee, and what name.strip() makes of them
NameInputs == {"", " ", "Ana", " Ana ", "Bia"}

strip(name) ==
    CASE name = " " -> ""
      [] name = " Ana " -> "Ana"
      [] OTHER -> name

\* ORDER BY name (BINARY collation) on the stored names
NameRank(name) ==
    CASE name = "A" -> 1 [] name = "Ana" -> 2 [] name = "B" -> 3 [] name = "Bia" -> 4

\* the argument pairs (start_date, end_date) of add_vacation and
\* update_vacation: a period over the end of a month of weight 11 into the
\* month of weight 3, given as date objects; a one-day period inside it,
\* given as 'YYYY-MM-DD' strings; a pair with start > end; and the one-day
\* period on date.max, whose scoring raises
VacationInputs ==
    { <<MkDate(2024, 7, 31), MkDate(2024, 8, 1)>>,
      <<isoformat(MkDate(2024, 8, 1)), isoformat(MkDate(2024, 8, 1))>>,
      <<MkDate(2024, 8, 1), MkDate(2024, 7, 31)>>,
      <<MkDate(MAXYEAR, 12, 31), MkDate(MAXYEAR, 12, 31)>> }

\* a result that outlives the call that computed it
ResetRankKept == UNCHANGED rankVars

\* employees_df, vacations_df and ranking_data are locals of one call of
\* get_employee_ranking ("ranking_data = []"): nothing of them is left
\* when another function runs
ResetRank ==
    /\ employees_df' = <<>>
    /\ vacations_df' = <<>>
    /\ ranking_data' = NoValue

\* add_employee(name)
add_employee(name) ==
    /\ IF name = "" \/ strip(name) = ""
       THEN /\ UNCHANGED storeVars
            /\ last_call' = Returns("add_employee", "False")
       ELSE /\ seq_employees < MaxEmployeeId
            /\ employees' = employees \cup
                  {[id |-> seq_employees + 1, name |-> strip(name)]}
            /\ seq_employees' = seq_employees + 1
            /\ UNCHANGED <<vacations, seq_vacations>>
            /\ last_call' = Returns("add_employee", "True")
    /\ ResetRank
    /\ UNCHANGED <<calcVars, concVars, appVars>>

\* delete_employee(employee_id): the connection sets foreign_keys = ON, so
\* deleting the row cascades to the vacations that reference it
delete_employee(employee_id) ==
    /\ employees' = {r \in employees : r.id # employee_id}
    /\ vacations' =
          IF \E r \in employees : r.id = employee_id
          THEN {v \in vacations : v.employee_id # employee_id}
          ELSE vacations
    /\ UNCHANGED <<seq_employees, seq_vacations>>
    /\ last_call' = Returns("delete_employee", "None")
    /\ ResetRank
    /\ UNCHANGED <<calcVars, concVars, appVars>>

\* validation without the comparison of the two dates
ValidatePeriodUnordered(start_date, end_date) ==
    IF AsDate(start_date) = ValueError \/ AsDate(end_date) = ValueError
    THEN "raise"
    ELSE "pass"

\* the checks of add_vacation and update_vacation before the connection is
\* opened: "raise" (strptime), "reject" (start_date > end_date) or "pass"
ValidatePeriod(start_date, end_date) ==
    LET s == AsDate(start_date)
        e == AsDate(end_date)
    IN IF s = ValueError \/ e = ValueError
       THEN "raise"
       ELSE IF DateLT(e, s) THEN "reject" ELSE "pass"

\* 'INSERT INTO vacations (employee_id, start_date, end_date) VALUES (?, ?,
\* ?)' and the commit; the sqlite3 adapter writes a date as its isoformat()
InsertVacation(employee_id, start_date, end_date) ==
    /\ seq_vacations < MaxVacationId
    /\ vacations' = vacations \cup
          {[id |-> seq_vacations + 1,
            employee_id |-> employee_id,
            start_date |-> isoformat(start_date),
            end_date |-> isoformat(end_date)]}
    /\ seq_vacations' = seq_vacations + 1
    /\ UNCHANGED <<employees, seq_employees>>

\* add_vacation(employee_id, start_date, end_date): the connection leaves
\* foreign_keys at SQLite's default (off), so employee_id is not checked
add_vacation(employee_id, start_date, end_date) ==
    /\ IF ValidatePeriod(start_date, end_date) # "pass"
       THEN /\ UNCHANGED storeVars
            /\ last_call' =
                  IF ValidatePeriod(start_date, end_date) = "raise"
                  THEN Raises("add_vacation", ValueError)
                  ELSE Returns("add_vacation", "False")
       ELSE /\ InsertVacation(employee_id, AsDate(start_date), AsDate(end_date))
            /\ last_call' = Returns("add_vacation", "True")
    /\ ResetRank
    /\ UNCHANGED <<calcVars, concVars, appVars>>

\* delete_vacation(vacation_id)
delete_vacation(vacation_id) ==
    /\ vacations' = {v \in vacations : v.id # vacation_id}
    /\ UNCHANGED <<employees, seq_employees, seq_vacations>>
    /\ last_call' = Returns("delete_vacation", "None")
    /\ ResetRank
    /\ UNCHANGED <<calcVars, concVars, appVars>>

\* update_vacation(vacation_id, employee_id, start_date, end_date)
update_vacation(vacation_id, employee_id, start_date, end_date) ==
    /\ IF ValidatePeriod(start_date, end_date) # "pass"
       THEN /\ UNCHANGED vacations
            /\ last_call' =
                  IF ValidatePeriod(start_date, end_date) = "raise"
                  THEN Raises("update_vacation", ValueError)
                  ELSE Returns("update_vacation", "False")
       ELSE /\ vacations' =
                  {IF v.id = vacation_id
                   THEN [id |-> v.id,
                         employee_id |-> employee_id,
                         start_date |-> isoformat(AsDate(start_date)),
                         end_date |-> isoformat(AsDate(end_date))]
                   ELSE v : v \in vacations}
            \* "return rows_affected > 0"
            /\ last_call' =
                  IF \E v \in vacations : v.id = vacation_id
                  THEN Returns("update_vacation", "True")
                  ELSE Returns("update_vacation", "False")
    /\ UNCHANGED <<employees, seq_employees, seq_vacations>>
    /\ ResetRank
    /\ UNCHANGED <<calcVars, concVars, appVars>>

----------------------------------------------------------------------------
(* get_employee_ranking                                                    *)

\* the orders a query may return the rows of a set in
Orders(rows) ==
    {f \in [1..Cardinality(rows) -> rows] :
        \A i, j \in 1..Cardinality(rows) : f[i] = f[j] => i = j}

\* 'SELECT id, name FROM employees ORDER BY name': sorted by name, rows of
\* equal name in an order SQLite does not specify
EmployeesListings(rows) ==
    {f \in Orders(rows) :
        \A i, j \in 1..Len(f) : i < j => NameRank(f[i].name) <= NameRank(f[j].name)}

\* the query on table employees as it stands
employees_query == EmployeesListings(employees)

\* 'SELECT employee_id, start_date, end_date FROM vacations': every row, in
\* an order SQLite does not specify
VacationsListings(rows) ==
    {[i \in 1..Len(f) |->
        [employee_id |-> f[i].employee_id,
         start_date |-> f[i].start_date,
         end_date |-> f[i].end_date]] : f \in Orders(rows)}

\* the query on table vacations as it stands
vacations_query == VacationsListings(vacations)

\* "=" written for "+=" in the month aggregation
MergeMonthOverwrite(month_details, month, days) == DictSet(month_details, month, days)

\* "if month not in month_details: month_details[month] = 0;
\*  month_details[month] += days"
MergeMonth(month_details, month, days) ==
    LET d0 == IF ~DictHas(month_details, month)
              THEN DictSet(month_details, month, 0)
              ELSE month_details
    IN DictSet(d0, month, DictGet(d0, month) + days)

\* "for month, days in days_by_month.items()"
RECURSIVE MergeMonths(_, _, _)
MergeMonths(month_details, days_by_month, i) ==
    IF i > Len(days_by_month)
    THEN month_details
    ELSE MergeMonths(MergeMonth(month_details, days_by_month[i].key,
                                days_by_month[i].value),
                     days_by_month, i + 1)

\* the exclusive difference written for the inclusive day count
PeriodDaysExclusive(start_date, end_date) ==
    DateSubDays(strptime(end_date), strptime(start_date))

\* "start = strptime(...); end = strptime(...); (end - start).days + 1"
PeriodDays(start_date, end_date) ==
    DateSubDays(strptime(end_date), strptime(start_date)) + 1

\* the body of "for _, vac in emp_vacations.iterrows()" for one period
\* scored: the accumulators after it, or the exception it raised
\* "=" written for "+=" on total_days
PeriodStepLastDays(acc, vac, scored) ==
    IF scored.status # "returned"
    THEN scored
    ELSE [status |-> "returned",
          total_points |-> acc.total_points + scored.total_points,
          total_days |-> PeriodDays(vac.start_date, vac.end_date),
          month_details |-> MergeMonths(acc.month_details, scored.days_by_month, 1)]

PeriodStep(acc, vac, scored) ==
    IF scored.status # "returned"
    THEN scored
    ELSE [status |-> "returned",
          total_points |-> acc.total_points + scored.total_points,
          total_days |-> acc.total_days + PeriodDays(vac.start_date, vac.end_date),
          month_details |-> MergeMonths(acc.month_details, scored.days_by_month, 1)]

\* "for _, vac in emp_vacations.iterrows()": the three accumulators after
\* the periods i.. of the employee, or the exception a period raised
RECURSIVE PeriodLoop(_, _, _)
PeriodLoop(emp_vacations, i, acc) ==
    IF i > Len(emp_vacations) \/ acc.status # "returned"
    THEN acc
    ELSE PeriodLoop(emp_vacations, i + 1,
                    PeriodStep(acc, emp_vacations[i],
                               calculate_vacation_points(emp_vacations[i].start_date,
                                                         emp_vacations[i].end_date)))

\* "vacations_df[vacations_df['employee_id'] == employee_id]"
EmpVacations(rows, employee_id) ==
    SelectSeq(rows, LAMBDA v : v.employee_id = employee_id)

\* "ranking_data.append({...})": the entry of an employee whose periods
\* gave the accumulators acc, or the exception raised
EntryOf(emp, acc) ==
    IF acc.status # "returned"
    THEN acc
    ELSE [status |-> "returned",
          entry |-> [name |-> emp.name,
                     total_points |-> acc.total_points,
                     total_days |-> acc.total_days,
                     month_details |-> acc.month_details]]

\* the body of "for _, emp in employees_df.iterrows()" for one employee
EmployeeEntry(emp, rows) ==
    EntryOf(emp, PeriodLoop(EmpVacations(rows, emp.id), 1,
                            [status |-> "returned", total_points |-> 0,
                             total_days |-> 0, month_details |-> <<>>]))

\* ranking_data after the append of one employee's entry, or the exception
AppendEntry(built, made) ==
    IF made.status # "returned"
    THEN made
    ELSE [status |-> "returned", rows |-> Append(built.rows, made.entry)]

\* an employee is skipped when no vacation row names it (an inner join)
SkipsEmployeeJoined(emp, rows) ==
    ~\E i \in 1..Len(rows) : rows[i].employee_id = emp.id

\* no employee of employees_df is skipped by the loop
SkipsEmployee(emp, rows) == FALSE

\* "for _, emp in employees_df.iterrows(): ... ranking_data.append(...)":
\* ranking_data before the sort, or the first exception raised
RECURSIVE EmployeeLoop(_, _, _, _)
EmployeeLoop(listing, rows, i, built) ==
    IF i > Len(listing) \/ built.status # "returned"
    THEN built
    ELSE IF SkipsEmployee(listing[i], rows)
         THEN EmployeeLoop(listing, rows, i + 1, built)
         ELSE EmployeeLoop(listing, rows, i + 1,
                           AppendEntry(built, EmployeeEntry(listing[i], rows)))

\* list.sort inserts entry x into an already sorted prefix after every
\* entry whose key is not greater (stable)
RECURSIVE InsertByPoints(_, _)
InsertByPoints(sorted, x) ==
    IF sorted = <<>>
    THEN <<x>>
    ELSE IF sorted[Len(sorted)].total_points <= x.total_points
         THEN Append(sorted, x)
         ELSE Append(InsertByPoints(SubSeq(sorted, 1, Len(sorted) - 1), x),
                     sorted[Len(sorted)])

\* an insertion before the entries of equal key: not stable
RECURSIVE InsertByPointsUnstable(_, _)
InsertByPointsUnstable(sorted, x) ==
    IF sorted = <<>>
    THEN <<x>>
    ELSE IF sorted[Len(sorted)].total_points < x.total_points
         THEN Append(sorted, x)
         ELSE Append(InsertByPointsUnstable(SubSeq(sorted, 1, Len(sorted) - 1), x),
                     sorted[Len(sorted)])

\* an insertion that keeps the largest total first
RECURSIVE InsertByPointsDescending(_, _)
InsertByPointsDescending(sorted, x) ==
    IF sorted = <<>>
    THEN <<x>>
    ELSE IF sorted[Len(sorted)].total_points >= x.total_points
         THEN Append(sorted, x)
         ELSE Append(InsertByPointsDescending(SubSeq(sorted, 1, Len(sorted) - 1), x),
                     sorted[Len(sorted)])

\* reverse=True
RECURSIVE SortDescending(_)
SortDescending(entries) ==
    IF entries = <<>>
    THEN <<>>
    ELSE InsertByPointsDescending(
             SortDescending(SubSeq(entries, 1, Len(entries) - 1)),
             entries[Len(entries)])

\* a sort that is not stable
RECURSIVE SortUnstable(_)
SortUnstable(entries) ==
    IF entries = <<>>
    THEN <<>>
    ELSE InsertByPointsUnstable(SortUnstable(SubSeq(entries, 1, Len(entries) - 1)),
                                entries[Len(entries)])

\* "ranking_data.sort(key=lambda x: x['total_points'])"
RECURSIVE SortByPoints(_)
SortByPoints(entries) ==
    IF entries = <<>>
    THEN <<>>
    ELSE InsertByPoints(SortByPoints(SubSeq(entries, 1, Len(entries) - 1)),
                        entries[Len(entries)])

\* lines 320-323: the sorted list returned, or the exception raised
SortBuilt(built) ==
    IF built.status # "returned"
    THEN built
    ELSE [status |-> "returned", rows |-> SortByPoints(built.rows)]

\* the computation of get_employee_ranking on the two frames read
Ranking(listing, rows) ==
    SortBuilt(EmployeeLoop(listing, rows, 1, [status |-> "returned", rows |-> <<>>]))

\* a ranking that deletes, as it reads, the vacations whose employee is gone
get_employee_ranking_pruning ==
    /\ \E listing \in employees_query : \E rows \in vacations_query :
          /\ employees_df' = listing
          /\ vacations_df' = rows
          /\ ranking_data' = Ranking(listing, rows)
    /\ last_call' = NoValue
    /\ vacations' = {v \in vacations : \E emp \in employees : emp.id = v.employee_id}
    /\ UNCHANGED <<employees, seq_employees, seq_vacations>>
    /\ UNCHANGED <<calcVars, concVars, appVars>>

\* get_employee_ranking()
get_employee_ranking ==
    /\ \E listing \in employees_query : \E rows \in vacations_query :
          /\ employees_df' = listing
          /\ vacations_df' = rows
          /\ ranking_data' = Ranking(listing, rows)
    /\ last_call' = NoValue
    /\ UNCHANGED storeVars
    /\ UNCHANGED <<calcVars, concVars, appVars>>

----------------------------------------------------------------------------
(* Spec: the store under any sequence of calls                             *)

Init ==
    /\ InitStore
    /\ InitRank
    /\ arg_start = NoValue
    /\ arg_end = NoValue
    /\ arg_split = NoValue
    /\ whole = NoValue
    /\ left = NoValue
    /\ right = NoValue
    /\ month_points = NoValue
    /\ last_call = NoValue
    /\ InitConc
    /\ InitApp

AddEmployee == \E name \in NameInputs : add_employee(name)

DeleteEmployee == \E employee_id \in 1..MaxEmployeeId : delete_employee(employee_id)

AddVacation ==
    \E employee_id \in 1..MaxEmployeeId : \E p \in VacationInputs :
        add_vacation(employee_id, p[1], p[2])

DeleteVacation == \E vacation_id \in 1..MaxVacationId : delete_vacation(vacation_id)

UpdateVacation ==
    \E vacation_id \in 1..MaxVacationId : \E employee_id \in 1..MaxEmployeeId :
        \E p \in VacationInputs :
            update_vacation(vacation_id, employee_id, p[1], p[2])

Next ==
    \/ AddEmployee
    \/ DeleteEmployee
    \/ AddVacation
    \/ DeleteVacation
    \/ UpdateVacation
    \/ get_employee_ranking

Spec == Init /\ [][Next]_vars

----------------------------------------------------------------------------
(* SpecCases: the stores of the specification's concrete cases 3 and 4     *)

\* the employees of case 4
CaseNames == {"A", "B"}

\* the two periods of case 3 and the period of case 1, as the date
\* objects app.ferias passes
CaseVacationInputs ==
    { <<MkDate(2024, 8, 1), MkDate(2024, 8, 5)>>,
      <<MkDate(2024, 8, 10), MkDate(2024, 8, 12)>>,
      <<MkDate(2024, 1, 28), MkDate(2024, 2, 3)>> }

CaseAddEmployee == \E name \in CaseNames : add_employee(name)

CaseAddVacation ==
    \E employee_id \in 1..MaxEmployeeId : \E p \in CaseVacationInputs :
        add_vacation(employee_id, p[1], p[2])

NextCases ==
    \/ CaseAddEmployee
    \/ DeleteEmployee
    \/ CaseAddVacation
    \/ DeleteVacation
    \/ get_employee_ranking

SpecCases == Init /\ [][NextCases]_vars

----------------------------------------------------------------------------
(* SpecBoundary: the Flask route /ferias (src/app.py) in front of the      *)
(* store functions, for a logged-in session                                *)

\* the value of a string of decimal digits, read left to right
RECURSIVE DigitsValue(_, _)
DigitsValue(chars, n) ==
    IF n = 0 THEN 0 ELSE DigitsValue(chars, n - 1) * 10 + DigitVal(chars[n])

\* int(s) on decimal digits with an optional leading "-"; anything else the
\* model feeds it is a ValueError
int(s) ==
    LET c == s.chars
        negative == Len(c) > 0 /\ c[1] = "-"
        digits == IF negative THEN Tail(c) ELSE c
    IN IF Len(digits) > 0 /\ \A i \in 1..Len(digits) : IsDigit(digits[i])
       THEN [status |-> "returned",
             value |-> IF negative
                       THEN 0 - DigitsValue(digits, Len(digits))
                       ELSE DigitsValue(digits, Len(digits))]
       ELSE ValueError

\* "if days_int < 1: ... elif days_int > 365: ... else:"
DaysAllowed(days_int) == 1 <= days_int /\ days_int <= 365

\* the body of the try block once both conversions succeeded
ferias_store(employee_id, start_obj, days_int) ==
    IF ~DaysAllowed(days_int)
    THEN /\ UNCHANGED storeVars
         /\ last_call' = Returns("ferias", "redirect")
    ELSE IF DateAddDays(start_obj, days_int - 1) = OverflowError
    \* "start_obj + timedelta(days=days_int - 1)" raises, and only
    \* ValueError is caught
    THEN /\ UNCHANGED storeVars
         /\ last_call' = Raises("ferias", OverflowError)
    ELSE /\ IF ValidatePeriod(start_obj, DateAddDays(start_obj, days_int - 1)) = "pass"
            \* column employee_id has INTEGER affinity: the text of the
            \* form field is stored as the integer it spells
            THEN InsertVacation(int(employee_id).value, start_obj,
                                DateAddDays(start_obj, days_int - 1))
            ELSE UNCHANGED storeVars
         /\ last_call' = Returns("ferias", "redirect")

\* POST /ferias with the form fields employee_id, start_date and days
ferias_post(employee_id, start_date, days) ==
    /\ IF employees = {}
       THEN /\ UNCHANGED storeVars
            /\ last_call' = Returns("ferias", "render_template")
       ELSE IF employee_id.chars = <<>> \/ start_date.chars = <<>> \/ days.chars = <<>>
       THEN /\ UNCHANGED storeVars
            /\ last_call' = Returns("ferias", "redirect")
       ELSE IF strptime(start_date) = ValueError \/ int(days) = ValueError
       THEN /\ UNCHANGED storeVars
            /\ last_call' = Returns("ferias", "redirect")
       ELSE ferias_store(employee_id, strptime(start_date), int(days).value)
    /\ ResetRank
    /\ UNCHANGED <<calcVars, concVars, appVars>>

\* field employee_id: empty, or the id of an option of the select
FormEmployeeIds ==
    {MkStr(<<>>)} \cup {MkStr(<<DigitChars[n + 1]>>) : n \in 1..MaxEmployeeId}

\* field start_date: empty, 30 February, 1 January 2023 and date.max
FormStartDates ==
    { MkStr(<<>>),
      MkStr(<<"2", "0", "2", "3", "-", "0", "2", "-", "3", "0">>),
      isoformat(MkDate(2023, 1, 1)),
      isoformat(MkDate(MAXYEAR, 12, 31)) }

\* field days: empty, not a number, below 1, 1, the limit and above it
FormDays ==
    { MkStr(<<>>), MkStr(<<"x">>), MkStr(<<"-", "1">>), MkStr(<<"0">>),
      MkStr(<<"1">>), MkStr(<<"3", "6", "5">>), MkStr(<<"3", "6", "6">>) }

\* periods handed to add_vacation and update_vacation by a caller other
\* than the route: of 365 days and of 366 days
DirectVacationInputs ==
    { <<MkDate(2023, 1, 1), MkDate(2023, 12, 31)>>,
      <<MkDate(2024, 1, 1), MkDate(2024, 12, 31)>> }

FeriasPost ==
    \E employee_id \in FormEmployeeIds : \E start_date \in FormStartDates :
        \E days \in FormDays : ferias_post(employee_id, start_date, days)

DirectAddVacation ==
    \E employee_id \in 1..MaxEmployeeId : \E p \in DirectVacationInputs :
        add_vacation(employee_id, p[1], p[2])

DirectUpdateVacation ==
    \E vacation_id \in 1..MaxVacationId : \E employee_id \in 1..MaxEmployeeId :
        \E p \in DirectVacationInputs :
            update_vacation(vacation_id, employee_id, p[1], p[2])

NextBoundary ==
    \/ CaseAddEmployee
    \/ DeleteEmployee
    \/ FeriasPost
    \/ DirectAddVacation
    \/ DirectUpdateVacation
    \/ DeleteVacation

SpecBoundary == Init /\ [][NextBoundary]_vars

----------------------------------------------------------------------------
(* SpecConc: get_employee_ranking in two request threads at once, beside   *)
(* a page that alters the month weight mapping it received                 *)

\* a mapping built once for the module and handed to every caller
get_month_points_shared(h, caller) ==
    [heap |-> IF h["module"] = <<>>
              THEN [h EXCEPT !["module"] = get_month_points]
              ELSE h,
     object |-> "module"]

\* "return {1: 11, ..., 12: 11}": the dict display builds a new mapping at
\* every call; it is put at the address kept for the caller
get_month_points_object(h, caller) ==
    [heap |-> [h EXCEPT ![caller] = get_month_points], object |-> caller]

\* the stores the requests read: two employees; two periods of one of
\* them, or one period of each, in July and August
ConcEmployees == {[id |-> 1, name |-> "Ana"], [id |-> 2, name |-> "Bia"]}

ConcVacations ==
    {{[id |-> 1, employee_id |-> 1,
       start_date |-> isoformat(MkDate(2024, 7, 31)),
       end_date |-> isoformat(MkDate(2024, 8, 1))],
      [id |-> 2, employee_id |-> employee_id,
       start_date |-> isoformat(MkDate(2024, 8, 1)),
       end_date |-> isoformat(MkDate(2024, 8, 2))]} : employee_id \in 1..MaxEmployeeId}

InitConcStore ==
    /\ employees = ConcEmployees
    /\ vacations \in ConcVacations
    /\ seq_employees = MaxEmployeeId
    /\ seq_vacations = MaxVacationId

\* lines 270-284: the two frames read and "ranking_data = []"
ReadFrames(p) ==
    /\ requests[p].pc = "idle"
    /\ \E listing \in employees_query : \E rows \in vacations_query :
          requests' = [requests EXCEPT ![p] =
              [@ EXCEPT !.pc = "for emp", !.employees_df = listing,
                        !.vacations_df = rows, !.ranking_data = <<>>, !.i = 1]]
    /\ UNCHANGED <<viewer, heap>>
    /\ UNCHANGED <<calcVars, storeVars, rankVars, last_call, appVars>>

\* one test of "for _, emp in employees_df.iterrows()": lines 287-295 for
\* the next employee, or lines 320-323 after the last
ForEmployee(p) ==
    LET r == requests[p] IN
    /\ r.pc = "for emp"
    /\ requests' = [requests EXCEPT ![p] =
          IF r.i <= Len(r.employees_df)
          THEN [r EXCEPT !.pc = "for vac",
                         !.emp_vacations = EmpVacations(r.vacations_df, r.employees_df[r.i].id),
                         !.j = 1, !.total_points = 0, !.total_days = 0,
                         !.month_details = <<>>]
          ELSE [r EXCEPT !.pc = "done", !.i = 0,
                         !.ranking_data = SortByPoints(r.ranking_data)]]
    /\ UNCHANGED <<viewer, heap>>
    /\ UNCHANGED <<calcVars, storeVars, rankVars, last_call, appVars>>

\* one test of "for _, vac in emp_vacations.iterrows()": the call of
\* calculate_vacation_points up to line 238 for the next period, or the
\* append of lines 313-318 after the last
ForVacation(p) ==
    LET r == requests[p]
        got == get_month_points_object(heap, p)
        made == EntryOf(r.employees_df[r.i],
                        [status |-> "returned", total_points |-> r.total_points,
                         total_days |-> r.total_days,
                         month_details |-> r.month_details])
    IN
    /\ r.pc = "for vac"
    /\ IF r.j <= Len(r.emp_vacations)
       THEN /\ heap' = got.heap
            /\ requests' = [requests EXCEPT ![p] =
                  [r EXCEPT !.pc = "walk", !.month_points = got.object]]
       ELSE /\ heap' = heap
            /\ requests' = [requests EXCEPT ![p] =
                  [r EXCEPT !.pc = "for emp", !.i = r.i + 1,
                            !.ranking_data = Append(r.ranking_data, made.entry),
                            !.emp_vacations = <<>>, !.j = 0,
                            !.total_points = 0, !.total_days = 0,
                            !.month_details = <<>>]]
    /\ UNCHANGED viewer
    /\ UNCHANGED <<calcVars, storeVars, rankVars, last_call, appVars>>

\* lines 240-259 of calculate_vacation_points: the dates parsed and the
\* days walked; an exception ends the request
WalkPeriod(p) ==
    LET r == requests[p]
        vac == r.emp_vacations[r.j]
        s == AsDate(vac.start_date)
        e == AsDate(vac.end_date)
        walk == IF s = ValueError \/ e = ValueError THEN ValueError ELSE DayWalk(s, e)
    IN
    /\ r.pc = "walk"
    /\ requests' = [requests EXCEPT ![p] =
          IF walk.status # "returned"
          THEN [r EXCEPT !.pc = walk.status]
          ELSE [r EXCEPT !.pc = "for month",
                         !.days_by_month = walk.days_by_month,
                         !.points = 0, !.k = 1]]
    /\ UNCHANGED <<viewer, heap>>
    /\ UNCHANGED <<calcVars, storeVars, rankVars, last_call, appVars>>

\* one test of "for month, days in days_by_month.items()" of line 262: the
\* addition of line 263 with the weight read from the mapping of this call,
\* or the return of line 265 and lines 300-311 of the caller
ForMonth(p) ==
    LET r == requests[p]
        table == heap[r.month_points]
        stepped == PeriodStep([status |-> "returned", total_points |-> r.total_points,
                               total_days |-> r.total_days,
                               month_details |-> r.month_details],
                              r.emp_vacations[r.j],
                              [status |-> "returned", total_points |-> r.points,
                               days_by_month |-> r.days_by_month])
    IN
    /\ r.pc = "for month"
    /\ requests' = [requests EXCEPT ![p] =
          IF r.k <= Len(r.days_by_month)
          THEN IF ~DictHas(table, r.days_by_month[r.k].key)
               THEN [r EXCEPT !.pc = "KeyError"]
               ELSE [r EXCEPT !.k = r.k + 1,
                              !.points = AddPoints(r.points, r.days_by_month[r.k].value,
                                                   DictGet(table, r.days_by_month[r.k].key))]
          ELSE [r EXCEPT !.pc = "for vac", !.j = r.j + 1,
                         !.total_points = stepped.total_points,
                         !.total_days = stepped.total_days,
                         !.month_details = stepped.month_details,
                         !.month_points = "none", !.days_by_month = <<>>,
                         !.k = 0, !.points = 0]]
    /\ UNCHANGED <<viewer, heap>>
    /\ UNCHANGED <<calcVars, storeVars, rankVars, last_call, appVars>>

\* "month_points = models.get_month_points()" of the ranking page
ViewerGet ==
    LET got == get_month_points_object(heap, "viewer") IN
    /\ viewer = "none"
    /\ heap' = got.heap
    /\ viewer' = got.object
    /\ UNCHANGED requests
    /\ UNCHANGED <<calcVars, storeVars, rankVars, last_call, appVars>>

\* the weights a holder of the mapping may store in it
AlteredWeights == {0, 11}

\* the holder of the mapping stores another weight for a month, or removes
\* the month from it
ViewerAlter ==
    /\ viewer # "none"
    /\ \E month \in {7, 8} :
          /\ DictHas(heap[viewer], month)
          /\ \/ \E weight \in AlteredWeights \ {DictGet(heap[viewer], month)} :
                   heap' = [heap EXCEPT ![viewer] = DictSet(@, month, weight)]
             \/ heap' = [heap EXCEPT ![viewer] =
                            SelectSeq(@, LAMBDA item : item.key # month)]
    /\ UNCHANGED <<requests, viewer>>
    /\ UNCHANGED <<calcVars, storeVars, rankVars, last_call, appVars>>

InitConcurrent ==
    /\ InitConcStore
    /\ InitRank
    /\ arg_start = NoValue
    /\ arg_end = NoValue
    /\ arg_split = NoValue
    /\ whole = NoValue
    /\ left = NoValue
    /\ right = NoValue
    /\ month_points = NoValue
    /\ last_call = NoValue
    /\ InitConc
    /\ InitApp

NextConc ==
    \/ \E p \in Requests : ReadFrames(p)
    \/ \E p \in Requests : ForEmployee(p)
    \/ \E p \in Requests : ForVacation(p)
    \/ \E p \in Requests : WalkPeriod(p)
    \/ \E p \in Requests : ForMonth(p)
    \/ ViewerGet
    \/ ViewerAlter

SpecConc == InitConcurrent /\ [][NextConc]_vars

----------------------------------------------------------------------------
(* SpecOld: calculate_vacation_points of the Streamlit application          *)
(* (oldapp.py) beside the one of models.py                                 *)

\* date.replace(year=, month=, day=): ValueError when there is no such date
replace(year, month, day) ==
    IF /\ MINYEAR <= year /\ year <= MAXYEAR
       /\ 1 <= month /\ month <= 12
       /\ 1 <= day /\ day <= days_in_month(year, month)
    THEN MkDate(year, month, day)
    ELSE ValueError

\* "current_date.replace(day=current_date.day + 1) if current_date.day < 28
\*  else current_date.replace(month=current_date.month + 1 if
\*  current_date.month < 12 else 1, day=1, year=current_date.year + (1 if
\*  current_date.month == 12 else 0))"
oldapp_next_date(current_date) ==
    IF current_date.day < 28
    THEN replace(current_date.year, current_date.month, current_date.day + 1)
    ELSE replace(current_date.year + (IF current_date.month = 12 THEN 1 ELSE 0),
                 IF current_date.month < 12 THEN current_date.month + 1 ELSE 1,
                 1)

\* the loop variables after the body, or the exception of replace
oldapp_Advance(next, counted) ==
    IF next = ValueError
    THEN ValueError
    ELSE [status |-> "walking", current_date |-> next, days_by_month |-> counted]

\* one test of "while current_date <= end_date" of oldapp.py:211 and, when
\* it holds, one execution of the loop body
oldapp_WalkStep(w, end_date) ==
    IF ~DateLE(w.current_date, end_date)
    THEN [status |-> "returned", days_by_month |-> w.days_by_month]
    ELSE oldapp_Advance(oldapp_next_date(w.current_date),
                        CountDay(w.days_by_month, w.current_date.month))

RECURSIVE oldapp_Iterate(_, _, _)
oldapp_Iterate(w, end_date, fuel) ==
    IF w.status # "walking" \/ fuel = 0
    THEN w
    ELSE IF fuel = 1
         THEN oldapp_WalkStep(w, end_date)
         ELSE oldapp_Iterate(oldapp_Iterate(w, end_date, fuel \div 2), end_date,
                             fuel - (fuel \div 2))

\* the loop of oldapp.py:208-219
oldapp_DayWalk(start_date, end_date) ==
    oldapp_Iterate([status |-> "walking", current_date |-> start_date,
                    days_by_month |-> <<>>], end_date, WalkFuel)

\* the dict literal of oldapp.get_month_points(), in the order it is written
oldapp_get_month_points ==
    <<[key |-> 1, value |-> 11], [key |-> 2, value |-> 11],
      [key |-> 3, value |-> 7], [key |-> 4, value |-> 5],
      [key |-> 5, value |-> 5], [key |-> 6, value |-> 6],
      [key |-> 7, value |-> 11], [key |-> 8, value |-> 3],
      [key |-> 9, value |-> 5], [key |-> 10, value |-> 6],
      [key |-> 11, value |-> 6], [key |-> 12, value |-> 11]>>

\* oldapp.calculate_vacation_points(start_date, end_date): the returned
\* pair, or the exception raised
oldapp_calculate_vacation_points(start_date, end_date) ==
    IF AsDate(start_date) = ValueError \/ AsDate(end_date) = ValueError
    THEN ValueError
    ELSE ScoreWalk(oldapp_DayWalk(AsDate(start_date), AsDate(end_date)),
                   oldapp_get_month_points)

\* the Streamlit application scores the period
OldScoreWhole ==
    /\ old_whole = NoValue
    /\ old_whole' = oldapp_calculate_vacation_points(arg_start, arg_end)
    /\ UNCHANGED <<calcVars, storeVars, rankVars, last_call, concVars, view,
                   session, users, last_login, init_db_runs, ranking_call>>

NextOld == ScoreWhole \/ OldScoreWhole

SpecOld == InitCalc /\ [][NextOld]_vars

----------------------------------------------------------------------------
(* SpecView: the /ranking view of the Flask application                    *)

DatabaseError == [status |-> "DatabaseError"]

\* 'FROM vacations v JOIN employees e ON v.employee_id = e.id': the pairs
\* of a vacation and the employee it references
JoinedRows ==
    {pair \in vacations \X employees : pair[1].employee_id = pair[2].id}

\* 'SELECT v.employee_id, e.name as employee_name, v.start_date, v.end_date
\*  ... ORDER BY v.start_date ASC': the joined rows by start date, rows of
\* equal start date in an order SQLite does not specify
all_vacations_query ==
    {[i \in 1..Len(f) |->
        [employee_id |-> f[i][1].employee_id,
         employee_name |-> f[i][2].name,
         start_date |-> f[i][1].start_date,
         end_date |-> f[i][1].end_date]] :
     f \in {g \in Orders(JoinedRows) :
               \A i, j \in 1..Len(g) :
                   i < j => DateLE(strptime(g[i][1].start_date),
                                   strptime(g[j][1].start_date))}}

\* "sorted(d.items())": the items of a mapping by ascending key, from key
\* m on
RECURSIVE SortedItems(_, _)
SortedItems(d, m) ==
    IF m > 12
    THEN <<>>
    ELSE IF DictHas(d, m)
         THEN <<[key |-> m, value |-> DictGet(d, m)]>> \o SortedItems(d, m + 1)
         ELSE SortedItems(d, m + 1)

\* the list built by "for month, days in sorted(...items())" from the
\* items: days, the weight of the month and their product
MonthLines(items, table) ==
    [i \in 1..Len(items) |->
        [month |-> items[i].key,
         days |-> items[i].value,
         points_per_day |-> DictGet(table, items[i].key),
         total_points |-> items[i].value * DictGet(table, items[i].key)]]

\* the entry appended to periods_breakdown for the idx-th row of
\* emp_vacations, or the exception its scoring raised
PeriodEntry(idx, vacation, table) ==
    LET start_date == strptime(vacation.start_date)
        end_date == strptime(vacation.end_date)
        scored == calculate_vacation_points(start_date, end_date)
    IN IF start_date = ValueError \/ end_date = ValueError
       THEN ValueError
       ELSE IF scored.status # "returned"
            THEN scored
            ELSE [status |-> "returned",
                  entry |-> [period_number |-> idx,
                             start_date |-> start_date,
                             end_date |-> end_date,
                             total_days |-> DateSubDays(end_date, start_date) + 1,
                             total_points |-> scored.total_points,
                             month_details |->
                                 MonthLines(SortedItems(scored.days_by_month, 1),
                                            table)]]

\* "for idx, (_, vacation) in enumerate(emp_vacations.iterrows(), 1)"
RECURSIVE PeriodsBreakdown(_, _, _, _)
PeriodsBreakdown(emp_vacations, idx, table, built) ==
    IF idx > Len(emp_vacations) \/ built.status # "returned"
    THEN built
    ELSE LET made == PeriodEntry(idx, emp_vacations[idx], table)
         IN PeriodsBreakdown(emp_vacations, idx + 1, table,
                IF made.status # "returned"
                THEN made
                ELSE [status |-> "returned",
                      rows |-> Append(built.rows, made.entry)])

\* "all_vacations_df[all_vacations_df['employee_name'] == emp['name']]"
EmpVacationsOfName(all_vacations_df, emp) ==
    SelectSeq(all_vacations_df, LAMBDA v : v.employee_name = emp.name)

\* the body of "for emp in ranking_data": the entry with its two
\* breakdowns, or the exception raised
ViewEntry(emp, all_vacations_df, table) ==
    LET periods == PeriodsBreakdown(EmpVacationsOfName(all_vacations_df, emp),
                                    1, table, [status |-> "returned", rows |-> <<>>])
    IN IF periods.status # "returned"
       THEN periods
       ELSE [status |-> "returned",
             entry |-> [name |-> emp.name,
                        total_points |-> emp.total_points,
                        total_days |-> emp.total_days,
                        month_details |-> emp.month_details,
                        month_breakdown |->
                            MonthLines(SortedItems(emp.month_details, 1), table),
                        periods_breakdown |-> periods.rows]]

RECURSIVE ViewLoop(_, _, _, _, _)
ViewLoop(entries, i, all_vacations_df, table, built) ==
    IF i > Len(entries) \/ built.status # "returned"
    THEN built
    ELSE LET made == ViewEntry(entries[i], all_vacations_df, table)
         IN ViewLoop(entries, i + 1, all_vacations_df, table,
                IF made.status # "returned"
                THEN made
                ELSE [status |-> "returned",
                      rows |-> Append(built.rows, made.entry)])

\* what the view hands to the template for the ranking ranked and the
\* joined rows read, or the exception raised
RankingPage(ranked, all_vacations_df) ==
    IF ranked.status # "returned"
    THEN ranked
    ELSE ViewLoop(ranked.rows, 1, all_vacations_df, get_month_points,
                  [status |-> "returned", rows |-> <<>>])

\* ranking(): the call of models.get_employee_ranking, the view's own
\* query and the breakdowns. The view opens 'vacation_manager.db' in the
\* working directory of the process: the file of the store when that is
\* /data, a file without the tables otherwise
ranking ==
    /\ \E listing \in employees_query : \E rows \in vacations_query :
          /\ employees_df' = listing
          /\ vacations_df' = rows
          /\ ranking_data' = Ranking(listing, rows)
          /\ \/ \E all_vacations_df \in all_vacations_query :
                   view' = RankingPage(Ranking(listing, rows), all_vacations_df)
             \/ view' = IF Ranking(listing, rows).status # "returned"
                        THEN Ranking(listing, rows)
                        ELSE DatabaseError
    /\ last_call' = NoValue
    /\ UNCHANGED storeVars
    /\ UNCHANGED <<calcVars, concVars, old_whole, session, users, last_login, init_db_runs, ranking_call>>

NextView ==
    \/ AddEmployee
    \/ DeleteEmployee
    \/ AddVacation
    \/ DeleteVacation
    \/ ranking

SpecView == Init /\ [][NextView]_vars

----------------------------------------------------------------------------
(* SpecFerias: the /ferias page, its form and its listing                  *)

OutOfBoundsDatetime == [status |-> "OutOfBoundsDatetime"]

\* the first and the last day a pandas Timestamp of nanosecond resolution
\* can hold
TimestampFirstDay == MkDate(1677, 9, 22)
TimestampLastDay == MkDate(2262, 4, 11)

\* the resolution pd.to_datetime gives the column it parses: nanoseconds
\* (pandas up to 2.x) or coarser (later versions); the sources pin no version
TimestampUnits == {"ns", "us"}

\* pd.to_datetime on the date d read from a string
to_datetime(d, unit) ==
    IF unit = "ns" /\ (DateLT(d, TimestampFirstDay) \/ DateLT(TimestampLastDay, d))
    THEN OutOfBoundsDatetime
    ELSE d

\* strftime('%d/%m/%Y')
strftime_dmY(d) ==
    MkStr(<<DigitAt(d.day, 10), DigitAt(d.day, 1),
            "/",
            DigitAt(d.month, 10), DigitAt(d.month, 1),
            "/",
            DigitAt(d.year, 1000), DigitAt(d.year, 100),
            DigitAt(d.year, 10), DigitAt(d.year, 1)>>)

\* the date spelled by a string under format '%d/%m/%Y'
strptime_dmY(s) ==
    LET c == s.chars
        wellFormed ==
            /\ Len(c) = 10
            /\ c[3] = "/" /\ c[6] = "/"
            /\ \A i \in {1, 2, 4, 5, 7, 8, 9, 10} : IsDigit(c[i])
        day == DigitVal(c[1]) * 10 + DigitVal(c[2])
        month == DigitVal(c[4]) * 10 + DigitVal(c[5])
        year == DigitVal(c[7]) * 1000 + DigitVal(c[8]) * 100
                  + DigitVal(c[9]) * 10 + DigitVal(c[10])
    IN IF /\ wellFormed
          /\ MINYEAR <= year /\ year <= MAXYEAR
          /\ 1 <= month /\ month <= 12
          /\ 1 <= day /\ day <= days_in_month(year, month)
       THEN MkDate(year, month, day)
       ELSE ValueError

\* a row of get_vacations() for a vacation and the employee it references:
\* both dates parsed and written again as dd/mm/YYYY, or the exception of
\* the parsing
VacationRow(v, emp, unit) ==
    LET s == to_datetime(strptime(v.start_date), unit)
        e == to_datetime(strptime(v.end_date), unit)
    IN IF s = OutOfBoundsDatetime \/ e = OutOfBoundsDatetime
       THEN OutOfBoundsDatetime
       ELSE [status |-> "returned",
             row |-> [id |-> v.id, name |-> emp.name,
                      start_date |-> strftime_dmY(s),
                      end_date |-> strftime_dmY(e),
                      employee_id |-> emp.id]]

\* "(end_date_obj - start_date_obj).dt.days" written for the inclusive count
num_days_exclusive(row, unit) ==
    DateSubDays(to_datetime(strptime_dmY(row.end_date), unit),
                to_datetime(strptime_dmY(row.start_date), unit))

\* "vacations_df['num_days'] = (vacations_df['end_date_obj'] -
\*  vacations_df['start_date_obj']).dt.days + 1" on the columns parsed with
\* format '%d/%m/%Y'
num_days(row, unit) ==
    DateSubDays(to_datetime(strptime_dmY(row.end_date), unit),
                to_datetime(strptime_dmY(row.start_date), unit)) + 1

\* the records the listing is rendered from, one per joined row, or the
\* exception get_vacations raised
ListedRows(unit) ==
    IF \E pair \in JoinedRows :
          VacationRow(pair[1], pair[2], unit) = OutOfBoundsDatetime
    THEN OutOfBoundsDatetime
    ELSE [status |-> "returned",
          rows |-> {[id |-> VacationRow(pair[1], pair[2], unit).row.id,
                     name |-> pair[2].name,
                     start_date |-> VacationRow(pair[1], pair[2], unit).row.start_date,
                     end_date |-> VacationRow(pair[1], pair[2], unit).row.end_date,
                     employee_id |-> pair[2].id,
                     num_days |-> num_days(VacationRow(pair[1], pair[2], unit).row,
                                           unit)] : pair \in JoinedRows}]

\* GET /ferias: the listing, "sort_values(by='name')" leaving rows of equal
\* name in an order it does not specify
ferias_get ==
    /\ \E unit \in TimestampUnits :
          IF employees = {}
          THEN view' = [status |-> "returned", rows |-> <<>>]
          ELSE IF ListedRows(unit).status # "returned"
               THEN view' = ListedRows(unit)
               ELSE \E f \in Orders(ListedRows(unit).rows) :
                       /\ \A i, j \in 1..Len(f) :
                             i < j => NameRank(f[i].name) <= NameRank(f[j].name)
                       /\ view' = [status |-> "returned", rows |-> f]
    /\ last_call' = Returns("ferias", "render_template")
    /\ ResetRank
    /\ UNCHANGED <<storeVars, calcVars, concVars, old_whole, session, users,
                   last_login, init_db_runs, ranking_call>>

NextFerias ==
    \/ CaseAddEmployee
    \/ DeleteEmployee
    \/ FeriasPost
    \/ DeleteVacation
    \/ ferias_get

SpecFerias == Init /\ [][NextFerias]_vars

----------------------------------------------------------------------------
(* SpecSession: login, logout, the protected routes and the password       *)
(* change of the Flask application                                         *)

\* the characters c repeated n times
RECURSIVE Repeat(_, _)
Repeat(c, n) == IF n = 0 THEN <<>> ELSE Append(Repeat(c, n - 1), c)

RECURSIVE lstrip(_)
lstrip(chars) ==
    IF chars # <<>> /\ Head(chars) = " " THEN lstrip(Tail(chars)) ELSE chars

RECURSIVE rstrip(_)
rstrip(chars) ==
    IF chars # <<>> /\ chars[Len(chars)] = " "
    THEN rstrip(SubSeq(chars, 1, Len(chars) - 1))
    ELSE chars

\* str.strip() on the text of a form field
str_strip(s) == MkStr(rstrip(lstrip(s.chars)))

\* the account init_db creates
AdminName == MkStr(<<"a", "d", "m", "i", "n">>)
AdminPassword == MkStr(<<"a", "d", "m", "i", "n", "1", "2", "3">>)

\* bcrypt.gensalt(): one of the salts it may draw
Salts == {"salt 1", "salt 2"}

\* bcrypt works on the first 72 bytes of a password
BcryptBytes == 72

bcrypt_input(password) ==
    MkStr(SubSeq(password.chars, 1,
                 IF Len(password.chars) < BcryptBytes
                 THEN Len(password.chars)
                 ELSE BcryptBytes))

\* hash_password(password) when gensalt() draws salt
hash_password(password, salt) ==
    [password |-> bcrypt_input(password), salt |-> salt]

\* verify_password(password, password_hash)
verify_password(password, password_hash) ==
    bcrypt_input(password) = password_hash.password

\* verify_login(username, password) on the users table
verify_login(username, password) ==
    IF username.chars = <<>> \/ password.chars = <<>>
    THEN FALSE
    ELSE IF ~\E u \in users : u.username = username
         THEN FALSE
         ELSE verify_password(password,
                  (CHOOSE u \in users : u.username = username).password_hash)

\* the UPDATE of change_password without the WHERE clause
UpdatePasswordOfAll(username, password_hash) ==
    {[username |-> u.username, password_hash |-> password_hash] : u \in users}

\* 'UPDATE users SET password_hash = ? WHERE username = ?': the table after
UpdatePassword(username, password_hash) ==
    {IF u.username = username
     THEN [username |-> u.username, password_hash |-> password_hash]
     ELSE u : u \in users}

\* change_password(username, new_password): the table after the call and
\* the value returned, when gensalt() draws salt
change_password(username, new_password, salt) ==
    IF username.chars = <<>> \/ new_password.chars = <<>> \/ Len(new_password.chars) < 6
    THEN [users |-> users, value |-> "False"]
    ELSE [users |-> UpdatePassword(username, hash_password(new_password, salt)),
          value |-> IF \E u \in users : u.username = username
                    THEN "True"
                    ELSE "False"]

\* the session a request carries, as the mapping Flask keeps in the cookie
HasUser == DictHas(session, "username")
SessionUser == DictGet(session, "username")

\* what is remembered of a login POST: the username handed to verify_login
\* and whether the check was made and passed
LoginPost(username, verified) ==
    [status |-> "posted", username |-> username, verified |-> verified]

\* a login POST that stores the username whatever verify_login says
login_unverified(username, password) ==
    /\ session' = <<[key |-> "username", value |-> str_strip(username)]>>
    /\ last_login' =
          [recent |-> LoginPost(str_strip(username),
                                IF verify_login(str_strip(username), password)
                                THEN "True" ELSE "False"),
           checked |-> LoginPost(str_strip(username),
                                 IF verify_login(str_strip(username), password)
                                 THEN "True" ELSE "False")]
    /\ last_call' = Returns("login", "redirect dashboard")
    /\ UNCHANGED <<users, storeVars, rankVars, calcVars, concVars, old_whole, view, init_db_runs, ranking_call>>

\* POST /login with the form fields username and password
login(username, password) ==
    /\ IF HasUser
       THEN /\ UNCHANGED session
            /\ last_login' = [last_login EXCEPT
                  !.recent = LoginPost(str_strip(username), "not called")]
            /\ last_call' = Returns("login", "redirect dashboard")
       ELSE IF str_strip(username).chars = <<>> \/ password.chars = <<>>
       THEN /\ UNCHANGED session
            /\ last_login' = [last_login EXCEPT
                  !.recent = LoginPost(str_strip(username), "not called")]
            /\ last_call' = Returns("login", "render_template")
       ELSE IF verify_login(str_strip(username), password)
       THEN /\ session' = <<[key |-> "username", value |-> str_strip(username)]>>
            /\ last_login' = [recent |-> LoginPost(str_strip(username), "True"),
                              checked |-> LoginPost(str_strip(username), "True")]
            /\ last_call' = Returns("login", "redirect dashboard")
       ELSE /\ UNCHANGED session
            /\ last_login' = [recent |-> LoginPost(str_strip(username), "False"),
                              checked |-> LoginPost(str_strip(username), "False")]
            /\ last_call' = Returns("login", "render_template")
    /\ UNCHANGED <<users, storeVars, rankVars, calcVars, concVars, old_whole, view, init_db_runs, ranking_call>>

\* GET /logout
logout ==
    /\ session' = <<>>
    /\ last_call' = Returns("logout", "redirect login")
    /\ UNCHANGED <<users, last_login, storeVars, rankVars, calcVars, concVars,
                   old_whole, view, init_db_runs, ranking_call>>

\* @login_required: the redirect to login, or the body of the route
login_required(route, Body) ==
    IF ~HasUser
    THEN /\ last_call' = Returns(route, "redirect login")
         /\ UNCHANGED <<storeVars, rankVars, calcVars, concVars, appVars>>
    ELSE Body

\* the length of the sampled names
len(name) ==
    CASE name = "" -> 0
      [] name = "A" -> 1
      [] name = "B" -> 1
      [] OTHER -> 3

\* the body of funcionarios() for a POST with the form field name
funcionarios_post(name) ==
    IF strip(name) = "" \/ len(strip(name)) < 2 \/ len(strip(name)) > 100
    THEN /\ last_call' = Returns("funcionarios", "redirect")
         /\ UNCHANGED <<storeVars, rankVars, calcVars, concVars, appVars>>
    ELSE add_employee(strip(name))

\* the body of delete_funcionario(employee_id)
delete_funcionario(employee_id) ==
    IF employee_id <= 0
    THEN /\ last_call' = Returns("delete_funcionario", "redirect")
         /\ UNCHANGED <<storeVars, rankVars, calcVars, concVars, appVars>>
    ELSE delete_employee(employee_id)

\* the body of configuracoes() for a POST with the three form fields, when
\* gensalt() draws salt: the outcome "changed" (flash success), "invalid"
\* (a validation failed), "wrong password" or "error"
configuracoes_outcome(current_password, new_password, confirm_password, salt) ==
    IF \/ current_password.chars = <<>>
       \/ new_password.chars = <<>>
       \/ confirm_password.chars = <<>>
    THEN "invalid"
    ELSE IF new_password # confirm_password
    THEN "invalid"
    ELSE IF Len(new_password.chars) < 6
    THEN "invalid"
    ELSE IF Len(new_password.chars) > 100
    THEN "invalid"
    ELSE IF ~verify_login(SessionUser, current_password)
    THEN "wrong password"
    ELSE IF change_password(SessionUser, new_password, salt).value = "True"
    THEN "changed"
    ELSE "error"

configuracoes_post(current_password, new_password, confirm_password) ==
    \E salt \in Salts :
        /\ users' =
              IF configuracoes_outcome(current_password, new_password,
                                       confirm_password, salt) \in {"changed", "error"}
              THEN change_password(SessionUser, new_password, salt).users
              ELSE users
        /\ last_call' = Returns("configuracoes",
                                configuracoes_outcome(current_password, new_password,
                                                      confirm_password, salt))
        /\ UNCHANGED <<session, last_login, storeVars, rankVars, calcVars, concVars,
                       old_whole, view, init_db_runs, ranking_call>>

\* a direct call of models.change_password(username, new_password)
ChangePasswordCall(username, new_password) ==
    \E salt \in Salts :
        /\ users' = change_password(username, new_password, salt).users
        /\ last_call' = Returns("change_password",
                                change_password(username, new_password, salt).value)
        /\ UNCHANGED <<session, last_login, storeVars, rankVars, calcVars, concVars,
                       old_whole, view, init_db_runs, ranking_call>>

\* the usernames and passwords typed into the forms
UsernameInputs ==
    { MkStr(<<>>), AdminName,
      MkStr(<<" ", "a", "d", "m", "i", "n", " ">>),
      MkStr(<<"b", "o", "b">>) }

PasswordInputs ==
    { MkStr(<<>>), AdminPassword,
      MkStr(<<"s", "e", "c", "r", "e">>),
      MkStr(<<"s", "e", "c", "r", "e", "t">>),
      MkStr(Repeat("x", 100)),
      MkStr(Repeat("x", 101)) }

Login == \E username \in UsernameInputs : \E password \in PasswordInputs :
             login(username, password)

Logout == logout

FuncionariosPost ==
    \E name \in {"A", "Ana", " Ana "} :
        login_required("funcionarios", funcionarios_post(name))

DeleteFuncionario ==
    \E employee_id \in 0..MaxEmployeeId :
        login_required("delete_funcionario", delete_funcionario(employee_id))

ConfiguracoesPost ==
    \E current_password \in PasswordInputs : \E new_password \in PasswordInputs :
        \E confirm_password \in PasswordInputs :
            login_required("configuracoes",
                           configuracoes_post(current_password, new_password,
                                              confirm_password))

ChangePassword ==
    \E username \in UsernameInputs : \E new_password \in PasswordInputs :
        ChangePasswordCall(username, new_password)

NextSession ==
    \/ Login
    \/ Logout
    \/ FuncionariosPost
    \/ DeleteFuncionario
    \/ ConfiguracoesPost
    \/ ChangePassword

SpecSession == Init /\ [][NextSession]_vars

----------------------------------------------------------------------------
(* SpecInit: init_db run by several processes on one database file         *)

\* the rows of table users named username
RowsNamed(table, username) == {u \in table : u.username = username}

\* 'INSERT OR REPLACE INTO users': the row replaces the one of its username
insert_or_replace(table, row) ==
    (table \ RowsNamed(table, row.username)) \cup {row}

\* 'INSERT OR IGNORE INTO users' under 'username TEXT UNIQUE': the table
\* after the statement
insert_or_ignore(table, row) ==
    IF RowsNamed(table, row.username) # {} THEN table ELSE table \cup {row}

\* a process holds the write lock of the file from its INSERT to its commit
LockHeld == \E p \in InitProcs : init_db_runs[p].pc = "inserted"

\* a process that has not called init_db yet
NotStarted == [pc |-> "idle", password_hash |-> NoValue, runs |-> 0]

\* lines 19-54: connect and CREATE TABLE IF NOT EXISTS, each statement
\* committed on its own; a table that is there keeps its rows, a new one
\* has none. While another process holds the write lock the tables are
\* there, and the statements write nothing
CreateTables(p) ==
    /\ init_db_runs[p].pc = "idle"
    /\ init_db_runs' = [init_db_runs EXCEPT ![p].pc = "tables"]
    /\ UNCHANGED <<users, last_call>>

\* line 57: hash_password('admin123')
HashAdminPassword(p) ==
    /\ init_db_runs[p].pc = "tables"
    /\ \E salt \in Salts :
          init_db_runs' = [init_db_runs EXCEPT
              ![p].pc = "hashed",
              ![p].password_hash = hash_password(AdminPassword, salt)]
    /\ UNCHANGED <<users, last_call>>

\* lines 58-59: the INSERT opens the transaction and takes the write lock;
\* its row is in the table for the others from the commit on
InsertAdmin(p) ==
    /\ init_db_runs[p].pc = "hashed"
    /\ ~LockHeld
    /\ init_db_runs' = [init_db_runs EXCEPT ![p].pc = "inserted"]
    /\ UNCHANGED <<users, last_call>>

\* line 61: conn.commit() publishes what the INSERT did and frees the lock
CommitInit(p) ==
    /\ init_db_runs[p].pc = "inserted"
    /\ users' = insert_or_ignore(users,
                    [username |-> AdminName,
                     password_hash |-> init_db_runs[p].password_hash])
    /\ init_db_runs' = [init_db_runs EXCEPT
          ![p].pc = "done", ![p].runs = @ + 1]
    /\ last_call' = Returns("init_db", "None")

\* a statement that needs the lock another process holds until the busy
\* timeout of sqlite3.connect passes: sqlite3.OperationalError
DatabaseLocked(p) ==
    /\ init_db_runs[p].pc \in {"idle", "hashed"}
    /\ LockHeld
    /\ init_db_runs' = [init_db_runs EXCEPT
          ![p].pc = "failed", ![p].runs = @ + 1]
    /\ last_call' = Raises("init_db", [status |-> "OperationalError"])
    /\ UNCHANGED users

\* the process, or the one started in its place, calls init_db again
RunAgain(p) ==
    /\ init_db_runs[p].pc \in {"done", "failed"}
    /\ init_db_runs[p].runs < MaxInitRuns
    /\ init_db_runs' = [init_db_runs EXCEPT
          ![p].pc = "idle", ![p].password_hash = NoValue]
    /\ UNCHANGED <<users, last_call>>

\* one step of init_db in process p
init_db(p) ==
    /\ \/ CreateTables(p)
       \/ HashAdminPassword(p)
       \/ InsertAdmin(p)
       \/ CommitInit(p)
       \/ DatabaseLocked(p)
       \/ RunAgain(p)
    /\ UNCHANGED <<storeVars, rankVars, calcVars, concVars, old_whole, view,
                   session, last_login, ranking_call>>

\* change_password called by an application whose init_db has returned,
\* once the write lock is free
ChangePasswordAfterInit ==
    /\ \E p \in InitProcs : init_db_runs[p].pc = "done"
    /\ ~LockHeld
    /\ \E new_password \in {AdminPassword, MkStr(<<"s", "e", "c", "r", "e", "t">>)} :
          ChangePasswordCall(AdminName, new_password)

\* the database file does not exist and no process has started: no rows
InitFresh ==
    /\ InitStore
    /\ InitRank
    /\ arg_start = NoValue
    /\ arg_end = NoValue
    /\ arg_split = NoValue
    /\ whole = NoValue
    /\ left = NoValue
    /\ right = NoValue
    /\ month_points = NoValue
    /\ last_call = NoValue
    /\ InitConc
    /\ old_whole = NoValue
    /\ view = NoValue
    /\ session = <<>>
    /\ last_login = [recent |-> NoValue, checked |-> NoValue]
    /\ users = {}
    /\ init_db_runs = [p \in InitProcs |-> NotStarted]
    /\ ranking_call = [pc |-> "idle", employees_df |-> <<>>, instants |-> {}]

InitDb == \E p \in InitProcs : init_db(p)

NextInit == InitDb \/ ChangePasswordAfterInit

SpecInit == InitFresh /\ [][NextInit]_vars

----------------------------------------------------------------------------
(* SpecSnapshot: get_employee_ranking read by read, with other requests    *)
(* writing to the store in between                                         *)

\* the two tables as they are at one instant
Store == [employees |-> employees, vacations |-> vacations]

\* the call is between its connect and its return
InFlight == ranking_call.pc \in {"connected", "employees read"}

\* line 270: sqlite3.connect; nothing is read yet
ConnectRanking ==
    /\ ranking_call.pc \in {"idle", "returned"}
    /\ ranking_call' = [pc |-> "connected", employees_df |-> <<>>,
                        instants |-> {Store}]
    /\ UNCHANGED <<storeVars, rankVars, last_call>>
    /\ UNCHANGED <<calcVars, concVars, old_whole, view, session, users, last_login,
                   init_db_runs>>

\* lines 273-274: the first read_sql_query, a read transaction of its own
ReadEmployees ==
    /\ ranking_call.pc = "connected"
    /\ \E listing \in employees_query :
          ranking_call' = [pc |-> "employees read", employees_df |-> listing,
                           instants |-> ranking_call.instants \cup {Store}]
    /\ UNCHANGED <<storeVars, rankVars, last_call>>
    /\ UNCHANGED <<calcVars, concVars, old_whole, view, session, users, last_login,
                   init_db_runs>>

\* lines 277-323: the second read_sql_query, and the ranking computed on
\* the two frames
ReadVacations ==
    /\ ranking_call.pc = "employees read"
    /\ \E rows \in vacations_query :
          /\ employees_df' = ranking_call.employees_df
          /\ vacations_df' = rows
          /\ ranking_data' = Ranking(ranking_call.employees_df, rows)
    /\ ranking_call' = [ranking_call EXCEPT
          !.pc = "returned", !.instants = @ \cup {Store}]
    /\ last_call' = NoValue
    /\ UNCHANGED storeVars
    /\ UNCHANGED <<calcVars, concVars, old_whole, view, session, users, last_login,
                   init_db_runs>>

\* the store as it stands during the call is noted as one of its instants
NoteInstant ==
    /\ InFlight
    /\ Store \notin ranking_call.instants
    /\ ranking_call' = [ranking_call EXCEPT !.instants = @ \cup {Store}]
    /\ UNCHANGED <<storeVars, rankVars, last_call>>
    /\ UNCHANGED <<calcVars, concVars, old_whole, view, session, users, last_login,
                   init_db_runs>>

\* the periods the other requests add
SnapshotVacationInputs ==
    { <<MkDate(2024, 8, 1), MkDate(2024, 8, 1)>>,
      <<MkDate(2024, 1, 28), MkDate(2024, 2, 3)>> }

\* a write of another request: during the call, after the store it
\* replaces was noted
ConcurrentWrite(Write) ==
    /\ InFlight => Store \in ranking_call.instants
    /\ Write

SnapshotAddEmployee ==
    ConcurrentWrite(\E name \in {"Ana", "Bia"} : add_employee(name))

SnapshotDeleteEmployee == ConcurrentWrite(DeleteEmployee)

SnapshotAddVacation ==
    ConcurrentWrite(\E employee_id \in 1..MaxEmployeeId :
                        \E p \in SnapshotVacationInputs :
                            add_vacation(employee_id, p[1], p[2]))

NextSnapshot ==
    \/ ConnectRanking
    \/ ReadEmployees
    \/ ReadVacations
    \/ NoteInstant
    \/ SnapshotAddEmployee
    \/ SnapshotDeleteEmployee
    \/ SnapshotAddVacation

SpecSnapshot == Init /\ [][NextSnapshot]_vars

----------------------------------------------------------------------------
(* the calendar the claims are stated against                              *)

\* the days of month m of year y
MonthDays(y, m) == {MkDate(y, m, n) : n \in 1..days_in_month(y, m)}

\* the calendar days d with s <= d <= e
CalendarDays(s, e) ==
    LET months == {ym \in (s.year..e.year) \X (1..12) :
                      /\ s.year * 12 + s.month <= ym[1] * 12 + ym[2]
                      /\ ym[1] * 12 + ym[2] <= e.year * 12 + e.month}
    IN {d \in UNION {MonthDays(ym[1], ym[2]) : ym \in months} :
           DateLE(s, d) /\ DateLE(d, e)}

\* for each month number, the number of days of [s, e] that fall in it
DaysPerMonth(s, e) ==
    LET days == CalendarDays(s, e)
        months == {d.month : d \in days}
    IN [m \in 1..12 |->
          IF m \in months THEN Cardinality({d \in days : d.month = m}) ELSE 0]

\* a mapping read at month m, 0 where m is absent
DaysOf(mapping, m) == IF DictHas(mapping, m) THEN DictGet(mapping, m) ELSE 0

\* a mapping holds every key once
NoDuplicateKey(mapping) ==
    \A i, j \in 1..Len(mapping) : mapping[i].key = mapping[j].key => i = j

RECURSIVE SumOfDays(_, _)
SumOfDays(mapping, m) ==
    IF m = 0 THEN 0 ELSE DaysOf(mapping, m) + SumOfDays(mapping, m - 1)

RECURSIVE WeightedSum(_, _, _)
WeightedSum(mapping, table, m) ==
    IF m = 0
    THEN 0
    ELSE DaysOf(mapping, m) * DictGet(table, m) + WeightedSum(mapping, table, m - 1)

ArgStart == AsDate(arg_start)
ArgEnd == AsDate(arg_end)

----------------------------------------------------------------------------
(* claims on calculate_vacation_points and get_month_points (SpecCalc)     *)

\* C1: whenever calculate_vacation_points(s, e) returns for s <= e, its
\* days_by_month holds, for each month 1..12, the number of calendar days
\* of [s, e] in that month, months without such a day are absent, and the
\* counts sum to (e - s).days + 1.
C1_DaysByMonthCountsCalendarDays ==
    (whole.status = "returned") =>
        LET expected == DaysPerMonth(ArgStart, ArgEnd)
        IN /\ NoDuplicateKey(whole.days_by_month)
           /\ DictKeys(whole.days_by_month) \subseteq 1..12
           /\ \A m \in 1..12 :
                 /\ DaysOf(whole.days_by_month, m) = expected[m]
                 /\ DictHas(whole.days_by_month, m) <=> expected[m] > 0
           /\ SumOfDays(whole.days_by_month, 12) = DateSubDays(ArgEnd, ArgStart) + 1

\* a returned period that crosses a month end, a 29 February and a year
\* boundary
C1_Witness ==
    /\ whole.status = "returned"
    /\ ArgStart.year < ArgEnd.year
    /\ MkDate(2024, 2, 29) \in CalendarDays(ArgStart, ArgEnd)
    /\ DaysOf(whole.days_by_month, 2) = 34

\* C2: a returned period whose start and end lie in the same month of the
\* same year has exactly one key, that month, with value (e - s).days + 1.
C2_SingleMonthSingleKey ==
    (/\ whole.status = "returned"
     /\ ArgStart.year = ArgEnd.year
     /\ ArgStart.month = ArgEnd.month) =>
        /\ Len(whole.days_by_month) = 1
        /\ whole.days_by_month[1].key = ArgStart.month
        /\ whole.days_by_month[1].value = DateSubDays(ArgEnd, ArgStart) + 1

\* a returned period inside February 2024 that ends on the 29th
C2_Witness ==
    /\ whole.status = "returned"
    /\ ArgStart = MkDate(2024, 2, 20)
    /\ ArgEnd = MkDate(2024, 2, 29)
    /\ whole.days_by_month = <<[key |-> 2, value |-> 10]>>

\* C3: when the whole period and its two adjacent sub-periods [s, k] and
\* [k + 1 day, e] are scored, the total_points of the parts add up to the
\* total_points of the whole and their days_by_month, added month by
\* month, equal the days_by_month of the whole.
C3_ScoringAdditiveOverSplit ==
    (/\ whole.status = "returned"
     /\ left.status = "returned"
     /\ right.status = "returned") =>
        /\ left.total_points + right.total_points = whole.total_points
        /\ \A m \in 1..12 :
              DaysOf(left.days_by_month, m) + DaysOf(right.days_by_month, m)
                  = DaysOf(whole.days_by_month, m)
        /\ DictKeys(left.days_by_month) \cup DictKeys(right.days_by_month)
              = DictKeys(whole.days_by_month)

\* a split inside a month that both parts touch, of a period over two
\* months with different weights
C3_Witness ==
    /\ whole.status = "returned"
    /\ left.status = "returned"
    /\ right.status = "returned"
    /\ arg_split.month = ArgStart.month
    /\ DateLT(ArgStart, arg_split)
    /\ DictKeys(right.days_by_month) = {7, 8}
    /\ DictKeys(left.days_by_month) = {7}

\* C4: the returned total_points is the sum over the months of the returned
\* days_by_month of day count times the weight of get_month_points, an
\* integer.
C4_TotalIsWeightedSum ==
    (whole.status = "returned") =>
        /\ whole.total_points \in Nat
        /\ whole.total_points = WeightedSum(whole.days_by_month, get_month_points, 12)

\* a returned period over three months of three different weights
C4_Witness ==
    /\ whole.status = "returned"
    /\ DictKeys(whole.days_by_month) = {7, 8, 9}
    /\ whole.total_points = 7 * 11 + 31 * 3 + 3 * 5

\* the weights of the specification
SpecWeights == <<11, 11, 7, 5, 5, 6, 11, 3, 5, 6, 6, 11>>

\* C5: the mapping a call gets from get_month_points is defined for
\* exactly the months 1..12, every weight is a positive integer, and the
\* weights are Jan=11, Feb=11, Mar=7, Apr=5, May=5, Jun=6, Jul=11, Aug=3,
\* Sep=5, Oct=6, Nov=6, Dec=11.
C5_MonthWeights ==
    (month_points # NoValue) =>
        /\ NoDuplicateKey(month_points)
        /\ DictKeys(month_points) = 1..12
        /\ \A m \in 1..12 :
              /\ DictGet(month_points, m) \in Nat \ {0}
              /\ DictGet(month_points, m) = SpecWeights[m]

\* a call has fetched the table and scored a day of August with it
C5_Witness ==
    /\ month_points # NoValue
    /\ whole.status = "returned"
    /\ DictHas(whole.days_by_month, 8)

\* C11: calculate_vacation_points for 30/12/2023 to 02/01/2024 returns
\* days_by_month = {12: 2, 1: 2} and total_points = 44.
C11_YearBoundaryCase ==
    (/\ whole # NoValue
     /\ ArgStart = MkDate(2023, 12, 30)
     /\ ArgEnd = MkDate(2024, 1, 2)) =>
        /\ whole.status = "returned"
        /\ NoDuplicateKey(whole.days_by_month)
        /\ DictKeys(whole.days_by_month) = {12, 1}
        /\ DaysOf(whole.days_by_month, 12) = 2
        /\ DaysOf(whole.days_by_month, 1) = 2
        /\ whole.total_points = 44

\* the call on 30/12/2023 to 02/01/2024, given as strings, has returned
C11_Witness ==
    /\ whole.status = "returned"
    /\ arg_start = isoformat(MkDate(2023, 12, 30))
    /\ arg_end = isoformat(MkDate(2024, 1, 2))

----------------------------------------------------------------------------
(* claims on get_employee_ranking (Spec)                                   *)
(* ranking_data holds a result only in the state the call leaves: every    *)
(* other call resets it, so employees and vacations are the store the      *)
(* result was computed from.                                               *)

RankingReturned == ranking_data.status = "returned"

\* the stored periods of an employee, as rows of the table
PeriodsOf(employee_id) == {v \in vacations : v.employee_id = employee_id}

\* the calendar days of a stored period
DaysOfPeriod(v) == CalendarDays(strptime(v.start_date), strptime(v.end_date))

\* the days of the periods that fall in month m (in any month for m = 0),
\* a day counted once for each period that covers it
RECURSIVE DaysOverPeriods(_, _)
DaysOverPeriods(periods, m) ==
    IF periods = {}
    THEN 0
    ELSE LET v == CHOOSE x \in periods : TRUE
         IN Cardinality({d \in DaysOfPeriod(v) : m = 0 \/ d.month = m})
              + DaysOverPeriods(periods \ {v}, m)

RECURSIVE Weighted(_, _)
Weighted(months, m) ==
    IF m = 0 THEN 0 ELSE months[m] * SpecWeights[m] + Weighted(months, m - 1)

\* what the claims expect of one employee: the days of the periods, in all
\* and per month, a day counted once for each period that covers it, and
\* every such day at the weight of its month
ExpectedOf(employee_id) ==
    LET months == <<DaysOverPeriods(PeriodsOf(employee_id), 1),
                    DaysOverPeriods(PeriodsOf(employee_id), 2),
                    DaysOverPeriods(PeriodsOf(employee_id), 3),
                    DaysOverPeriods(PeriodsOf(employee_id), 4),
                    DaysOverPeriods(PeriodsOf(employee_id), 5),
                    DaysOverPeriods(PeriodsOf(employee_id), 6),
                    DaysOverPeriods(PeriodsOf(employee_id), 7),
                    DaysOverPeriods(PeriodsOf(employee_id), 8),
                    DaysOverPeriods(PeriodsOf(employee_id), 9),
                    DaysOverPeriods(PeriodsOf(employee_id), 10),
                    DaysOverPeriods(PeriodsOf(employee_id), 11),
                    DaysOverPeriods(PeriodsOf(employee_id), 12)>>
    IN [days |-> DaysOverPeriods(PeriodsOf(employee_id), 0),
        months |-> months,
        points |-> Weighted(months, 12)]

\* ExpectedOf for the employee ids 1..n, as a sequence
RECURSIVE ExpectedUpTo(_)
ExpectedUpTo(n) ==
    IF n = 0 THEN <<>> ELSE Append(ExpectedUpTo(n - 1), ExpectedOf(n))

ExpectedTable == ExpectedUpTo(seq_employees)

\* the entries equal to x under the view View, and the employees whose
\* expected view is x, are equally many
SameCount(x, View(_), Expected(_)) ==
    Cardinality({i \in 1..Len(ranking_data.rows) : View(ranking_data.rows[i]) = x})
        = Cardinality({emp \in employees : Expected(emp) = x})

\* the entries, seen through View, are the employees' Expected values, each
\* as often as it occurs
EntriesAre(View(_), Expected(_)) ==
    /\ Len(ranking_data.rows) = Cardinality(employees)
    /\ \A emp \in employees : SameCount(Expected(emp), View, Expected)

\* C6: the list returned by get_employee_ranking is ascending by
\* total_points: for all positions i < j, result[i].total_points <=
\* result[j].total_points.
C6_RankingAscending ==
    RankingReturned =>
        \A i, j \in 1..Len(ranking_data.rows) :
            i < j => ranking_data.rows[i].total_points
                       <= ranking_data.rows[j].total_points

\* a ranking whose first entry is the employee listed last
C6_Witness ==
    /\ RankingReturned
    /\ Len(ranking_data.rows) = 2
    /\ employees_df[1].name = "Ana"
    /\ ranking_data.rows[1].name = "Bia"
    /\ ranking_data.rows[1].total_points = 3
    /\ ranking_data.rows[2].total_points = 14

\* C7: employees with equal total_points appear in the ranking in the
\* order of the employee listing: the entries are the listed employees'
\* entries rearranged so that two employees of equal points keep their
\* listing order, and the listing is alphabetical by name.
C7_TiesKeepListingOrder ==
    RankingReturned =>
        LET expected == ExpectedTable
        IN \E pi \in Orders(1..Len(employees_df)) :
              /\ Len(ranking_data.rows) = Len(employees_df)
              /\ \A p \in 1..Len(employees_df) :
                    /\ ranking_data.rows[pi[p]].name = employees_df[p].name
                    /\ ranking_data.rows[pi[p]].total_points
                          = expected[employees_df[p].id].points
              /\ \A p, q \in 1..Len(employees_df) :
                    (/\ p < q
                     /\ expected[employees_df[p].id].points
                           = expected[employees_df[q].id].points) => pi[p] < pi[q]
              /\ \A p, q \in 1..Len(employees_df) :
                    p < q => NameRank(employees_df[p].name)
                               <= NameRank(employees_df[q].name)

\* two employees of different names and equal points, both with a period
C7_Witness ==
    /\ RankingReturned
    /\ Len(ranking_data.rows) = 2
    /\ ranking_data.rows[1].name = "Ana"
    /\ ranking_data.rows[2].name = "Bia"
    /\ ranking_data.rows[1].total_points = 3
    /\ ranking_data.rows[2].total_points = 3

HasNoPeriod(emp) == PeriodsOf(emp.id) = {}

\* C8: every employee of the store has an entry, and every employee
\* without a vacation period has an entry with total_points = 0,
\* total_days = 0 and an empty month_details.
C8_RankingTotal ==
    RankingReturned =>
        /\ EntriesAre(LAMBDA row : row.name, LAMBDA emp : emp.name)
        /\ \A emp \in employees :
              HasNoPeriod(emp) =>
                  Cardinality({i \in 1..Len(ranking_data.rows) :
                                  /\ ranking_data.rows[i].name = emp.name
                                  /\ ranking_data.rows[i].total_points = 0
                                  /\ ranking_data.rows[i].total_days = 0
                                  /\ ranking_data.rows[i].month_details = <<>>})
                      >= Cardinality({other \in employees :
                                        /\ other.name = emp.name
                                        /\ HasNoPeriod(other)})

\* a ranking of an employee with a period and one without, while a
\* vacation row exists
C8_Witness ==
    /\ RankingReturned
    /\ \E emp \in employees : HasNoPeriod(emp)
    /\ \E emp \in employees : ~HasNoPeriod(emp)
    /\ ranking_data.rows[1].total_points = 0
    /\ ranking_data.rows[1].month_details = <<>>

\* C9: an employee's total_points and total_days are the plain sums of the
\* points and of the inclusive day counts of each of their periods; a day
\* covered by k periods of the employee counts k times.
C9_PeriodsScoredIndependently ==
    RankingReturned =>
        LET expected == ExpectedTable
        IN EntriesAre(LAMBDA row : <<row.name, row.total_points, row.total_days>>,
                      LAMBDA emp : <<emp.name, expected[emp.id].points,
                                     expected[emp.id].days>>)

\* an employee with two periods that overlap on 1 August: 3 days counted
\* over 2 calendar days
C9_Witness ==
    /\ RankingReturned
    /\ \E emp \in employees :
          /\ Cardinality(PeriodsOf(emp.id)) = 2
          /\ \E v, w \in PeriodsOf(emp.id) :
                v # w /\ DaysOfPeriod(v) \cap DaysOfPeriod(w) # {}
    /\ \E i \in 1..Len(ranking_data.rows) :
          /\ ranking_data.rows[i].total_days = 3
          /\ ranking_data.rows[i].total_points = 17

\* the month_details of an entry as day counts for the months 1..12
MonthView(row) ==
    <<DaysOf(row.month_details, 1), DaysOf(row.month_details, 2),
      DaysOf(row.month_details, 3), DaysOf(row.month_details, 4),
      DaysOf(row.month_details, 5), DaysOf(row.month_details, 6),
      DaysOf(row.month_details, 7), DaysOf(row.month_details, 8),
      DaysOf(row.month_details, 9), DaysOf(row.month_details, 10),
      DaysOf(row.month_details, 11), DaysOf(row.month_details, 12)>>

\* C10: the month_details of every employee is the month-by-month sum of
\* the days of all that employee's periods; a month is present exactly
\* when a period touches it.
C10_MonthDetailsIsSum ==
    RankingReturned =>
        LET expected == ExpectedTable
        IN /\ \A i \in 1..Len(ranking_data.rows) :
                 NoDuplicateKey(ranking_data.rows[i].month_details)
           /\ EntriesAre(LAMBDA row : <<row.name, MonthView(row),
                                        DictKeys(row.month_details)>>,
                         LAMBDA emp : <<emp.name, expected[emp.id].months,
                                        {m \in 1..12 :
                                            expected[emp.id].months[m] > 0}>>)

\* an employee with two periods that both touch August
C10_Witness ==
    /\ RankingReturned
    /\ \E emp \in employees : Cardinality(PeriodsOf(emp.id)) = 2
    /\ \E i \in 1..Len(ranking_data.rows) :
          /\ DaysOf(ranking_data.rows[i].month_details, 8) = 2
          /\ DaysOf(ranking_data.rows[i].month_details, 7) = 1

----------------------------------------------------------------------------
(* claims on the concrete cases of get_employee_ranking (SpecCases)        *)

\* the employees whose stored periods are exactly the given (start, end)
\* pairs, one row each
HoldsExactly(emp, periods) ==
    /\ Cardinality(PeriodsOf(emp.id)) = Cardinality(periods)
    /\ {<<strptime(v.start_date), strptime(v.end_date)>> : v \in PeriodsOf(emp.id)}
          = periods

Case3Periods ==
    { <<MkDate(2024, 8, 1), MkDate(2024, 8, 5)>>,
      <<MkDate(2024, 8, 10), MkDate(2024, 8, 12)>> }

Case1Periods == { <<MkDate(2024, 1, 28), MkDate(2024, 2, 3)>> }

\* C12: an employee with the two periods 01/08-05/08 and 10/08-12/08 of
\* one year gets total_days = 8, total_points = 24 and month_details =
\* {8: 8} from get_employee_ranking.
C12_TwoPeriodsOneMonthCase ==
    RankingReturned =>
        \A emp \in employees :
            HoldsExactly(emp, Case3Periods) =>
                \E i \in 1..Len(ranking_data.rows) :
                    /\ ranking_data.rows[i].name = emp.name
                    /\ ranking_data.rows[i].total_days = 8
                    /\ ranking_data.rows[i].total_points = 24
                    /\ ranking_data.rows[i].month_details = <<[key |-> 8, value |-> 8]>>

\* a ranking of a store in which an employee holds the two periods
C12_Witness ==
    /\ RankingReturned
    /\ \E emp \in employees : HoldsExactly(emp, Case3Periods)
    /\ Len(ranking_data.rows) = 2

\* C13: with the two employees A, holding the single period 28/01/2024 to
\* 03/02/2024, and B, holding none, get_employee_ranking returns [B, A]:
\* B with 0 points, then A with month_details {1: 4, 2: 3} and 77 points.
C13_ZeroBeforeSeventySevenCase ==
    (/\ RankingReturned
     /\ Cardinality(employees) = 2
     /\ \E a, b \in employees :
           /\ a.name = "A" /\ HoldsExactly(a, Case1Periods)
           /\ b.name = "B" /\ HoldsExactly(b, {})) =>
        /\ employees_df[1].name = "A"
        /\ employees_df[2].name = "B"
        /\ Len(ranking_data.rows) = 2
        /\ ranking_data.rows[1] =
              [name |-> "B", total_points |-> 0, total_days |-> 0,
               month_details |-> <<>>]
        /\ ranking_data.rows[2].name = "A"
        /\ ranking_data.rows[2].total_points = 77
        /\ ranking_data.rows[2].total_days = 7
        /\ NoDuplicateKey(ranking_data.rows[2].month_details)
        /\ DictKeys(ranking_data.rows[2].month_details) = {1, 2}
        /\ DaysOf(ranking_data.rows[2].month_details, 1) = 4
        /\ DaysOf(ranking_data.rows[2].month_details, 2) = 3

\* a ranking of the store of case 4
C13_Witness ==
    /\ RankingReturned
    /\ Cardinality(employees) = 2
    /\ \E a, b \in employees :
          /\ a.name = "A" /\ HoldsExactly(a, Case1Periods)
          /\ b.name = "B" /\ HoldsExactly(b, {})
    /\ ranking_data.rows[1].name = "B"

----------------------------------------------------------------------------
(* claims on the validation of stored periods (Spec)                       *)

StartAfterEnd(p) == DateLT(AsDate(p[2]), AsDate(p[1]))

StoredInOrder ==
    \A v \in vacations : DateLE(strptime(v.start_date), strptime(v.end_date))

\* C14: add_vacation and update_vacation called with start_date > end_date
\* return False and leave the vacations table unchanged, and every stored
\* vacation has start_date <= end_date.
C14_StartAfterEndRejected ==
    /\ [](StoredInOrder)
    /\ [][\A employee_id \in 1..MaxEmployeeId : \A p \in VacationInputs :
             StartAfterEnd(p) =>
                 /\ add_vacation(employee_id, p[1], p[2]) =>
                       /\ last_call' = Returns("add_vacation", "False")
                       /\ vacations' = vacations
                 /\ \A vacation_id \in 1..MaxVacationId :
                       update_vacation(vacation_id, employee_id, p[1], p[2]) =>
                           /\ last_call' = Returns("update_vacation", "False")
                           /\ vacations' = vacations]_vars

\* update_vacation has returned False while every id it could have been
\* given is stored, so for its dates
C14_Witness ==
    /\ last_call = Returns("update_vacation", "False")
    /\ seq_vacations = MaxVacationId
    /\ Cardinality(vacations) = MaxVacationId
    /\ StoredInOrder

----------------------------------------------------------------------------
(* claims on the length of stored periods (SpecBoundary)                   *)

\* the days a stored period spans, both ends included
SpanOf(v) == DateSubDays(strptime(v.end_date), strptime(v.start_date)) + 1

DaysOutOfRange(days) == int(days) # ValueError /\ ~(int(days).value \in 1..365)

\* C15: after any sequence of /ferias POSTs, add_vacation and
\* update_vacation calls no stored vacation spans more than 365 days, and
\* a /ferias POST with days < 1 or days > 365 stores nothing.
C15_NoPeriodOver365Days ==
    /\ [](\A v \in vacations : SpanOf(v) <= 365)
    /\ [][\A employee_id \in FormEmployeeIds : \A start_date \in FormStartDates :
             \A days \in FormDays :
                 (DaysOutOfRange(days) /\ ferias_post(employee_id, start_date, days))
                     => UNCHANGED storeVars]_vars

----------------------------------------------------------------------------
(* claims on what a ranking is computed from (Spec)                        *)

\* C16: whatever store mutations came before, the result of a call of
\* get_employee_ranking is exactly the ranking of the store's current
\* employees and vacations: the current employees in listing order, each
\* with the aggregates of their current periods, stably sorted by points;
\* no result of an earlier call is kept.
C16_RankingOfCurrentStore ==
    RankingReturned =>
        LET expected == ExpectedTable
            n == Len(employees_df)
            pts(p) == expected[employees_df[p].id].points
            pos(p) == 1 + Cardinality({q \in 1..n : pts(q) < pts(p)})
                        + Cardinality({q \in 1..(p - 1) : pts(q) = pts(p)})
        IN /\ n = Cardinality(employees)
           /\ {employees_df[p] : p \in 1..n} = employees
           /\ Len(ranking_data.rows) = n
           /\ \A p \in 1..n :
                 /\ ranking_data.rows[pos(p)].name = employees_df[p].name
                 /\ ranking_data.rows[pos(p)].total_points = pts(p)
                 /\ ranking_data.rows[pos(p)].total_days
                       = expected[employees_df[p].id].days
                 /\ NoDuplicateKey(ranking_data.rows[pos(p)].month_details)
                 /\ MonthView(ranking_data.rows[pos(p)])
                       = expected[employees_df[p].id].months

\* a ranking computed after rows were added and one of them deleted again
C16_Witness ==
    /\ RankingReturned
    /\ seq_vacations = MaxVacationId
    /\ Cardinality(vacations) = 1
    /\ seq_employees = MaxEmployeeId
    /\ Cardinality(employees) = 1
    /\ Len(ranking_data.rows) = 1
    /\ ranking_data.rows[1].total_points = 14

\* the rows of the vacations table as the ranking query selects them
SelectedRows ==
    {[employee_id |-> v.employee_id, start_date |-> v.start_date,
      end_date |-> v.end_date] : v \in vacations}

\* C17: a call of get_employee_ranking, with the calls of
\* calculate_vacation_points it makes, leaves the employees table, the
\* vacations table and their id counters as they were, and the rows it
\* handed to calculate_vacation_points still carry the stored dates.
C17_RankingMutatesNothing ==
    [][get_employee_ranking =>
          /\ employees' = employees
          /\ vacations' = vacations
          /\ seq_employees' = seq_employees
          /\ seq_vacations' = seq_vacations
          /\ {vacations_df'[i] : i \in 1..Len(vacations_df')} = SelectedRows
          /\ Len(vacations_df') = Cardinality(vacations)]_vars

\* a ranking has been computed over a store that holds a vacation of an
\* employee and a vacation whose employee does not exist
C17_Witness ==
    /\ RankingReturned
    /\ \E v \in vacations : \E emp \in employees : emp.id = v.employee_id
    /\ \E v \in vacations : \A emp \in employees : emp.id # v.employee_id

\* dict equality: the same keys with the same values, whatever the order
\* the keys were inserted in
DictEq(a, b) ==
    /\ DictKeys(a) = DictKeys(b)
    /\ \A k \in DictKeys(a) : DictGet(a, k) = DictGet(b, k)

\* two outcomes of get_employee_ranking compare equal
SameOutcome(x, y) ==
    /\ x.status = y.status
    /\ x.status = "returned" =>
          /\ Len(x.rows) = Len(y.rows)
          /\ \A i \in 1..Len(x.rows) :
                /\ x.rows[i].name = y.rows[i].name
                /\ x.rows[i].total_points = y.rows[i].total_points
                /\ x.rows[i].total_days = y.rows[i].total_days
                /\ DictEq(x.rows[i].month_details, y.rows[i].month_details)

\* C18: a run of get_employee_ranking over the same employee listing and
\* the same set of vacations gives the outcome of this run, whatever the
\* order the store returns the vacation rows in.
C18_RankingDeterministic ==
    (ranking_data # NoValue) =>
        \A rows \in vacations_query :
            SameOutcome(Ranking(employees_df, rows), ranking_data)

\* a ranking computed from the two periods of one employee read in the
\* order that meets August before July, the other order being possible
C18_Witness ==
    /\ RankingReturned
    /\ Cardinality(vacations_query) = 2
    /\ Len(ranking_data.rows) = 1
    /\ ranking_data.rows[1].total_days = 3
    /\ Len(ranking_data.rows[1].month_details) = 2
    /\ ranking_data.rows[1].month_details[1].key = 8


\* what a request has come to: the list it returned, or the exception that
\* ended it
RequestOutcome(r) ==
    IF r.pc = "done"
    THEN [status |-> "returned", rows |-> r.ranking_data]
    ELSE [status |-> r.pc]

RequestEnded(r) == r.pc \in {"done", "OverflowError", "ValueError", "KeyError"}

\* C19: under every interleaving of the steps of two get_employee_ranking
\* computations over an unchanged store, beside a caller that alters the
\* mapping get_month_points returned to it, each computation ends as it
\* would when run alone on the frames it read, and the mapping a
\* computation reads its weights from is its own and holds the weights of
\* the literal
C19_ConcurrentRankingsIndependent ==
    \A p \in Requests :
        /\ RequestEnded(requests[p]) =>
              RequestOutcome(requests[p])
                  = Ranking(requests[p].employees_df, requests[p].vacations_df)
        /\ requests[p].month_points # "none" =>
              /\ requests[p].month_points # viewer
              /\ \A q \in Requests \ {p} :
                    requests[q].month_points # requests[p].month_points
              /\ heap[requests[p].month_points] = get_month_points

\* one request has returned a list of two entries while the other is in
\* the middle of its weight lookups and the page's mapping has lost August
C19_Witness ==
    /\ requests["request 1"].pc = "done"
    /\ Len(requests["request 1"].ranking_data) = Cardinality(employees)
    /\ requests["request 2"].pc = "for month"
    /\ requests["request 2"].k = Len(requests["request 2"].days_by_month)
    /\ requests["request 2"].points > 0
    /\ viewer # "none"
    /\ ~DictHas(heap[viewer], 8)


\* the calls made so far on the period scored and on its two parts
CallsMade == {r \in {whole, left, right} : r # NoValue}

\* C20: for every pair of valid dates with start <= end,
\* calculate_vacation_points returns a result: no call ends in an
\* exception, the unknown-month KeyError least of all, and every month key
\* of a result is in 1..12.
C20_LookupNeverFails ==
    \A r \in CallsMade :
        /\ r.status = "returned"
        /\ DictKeys(r.days_by_month) \subseteq DictKeys(get_month_points)


----------------------------------------------------------------------------
(* claims on the Streamlit application's scoring (SpecOld)                 *)

\* C21: for every s <= e, oldapp.calculate_vacation_points returns, its
\* days_by_month counts every calendar day from s to e once (the count of
\* each month is the calendar's), and what it returns is what
\* models.calculate_vacation_points returns for the same period.
C21_OldWalkVisitsEveryDay ==
    (old_whole # NoValue) =>
        /\ old_whole.status = "returned"
        /\ \A m \in 1..12 :
              DaysOf(old_whole.days_by_month, m) = DaysPerMonth(ArgStart, ArgEnd)[m]
        /\ whole.status = "returned" => old_whole = whole


----------------------------------------------------------------------------
(* claims on the references from vacations to employees (Spec)             *)

\* C22: delete_employee(id) leaves no employee row with that id and no
\* vacation row with employee_id = id, and every other employee and
\* vacation as it was.
C22_DeleteEmployeeRemovesVacations ==
    [][\A employee_id \in 1..MaxEmployeeId :
          delete_employee(employee_id) =>
              /\ employees' = {r \in employees : r.id # employee_id}
              /\ vacations' = {v \in vacations : v.employee_id # employee_id}]_vars

\* C23: after any sequence of add_employee, delete_employee, add_vacation,
\* update_vacation and delete_vacation calls every stored vacation's
\* employee_id is the id of an existing employee, so that a ranking counts
\* every stored vacation in the aggregate of exactly one employee.
C23_ReferentialIntegrity ==
    /\ \A v \in vacations : \E emp \in employees : emp.id = v.employee_id
    /\ RankingReturned =>
          \A v \in vacations :
              Cardinality({i \in 1..Len(employees_df) :
                              employees_df[i].id = v.employee_id}) = 1


----------------------------------------------------------------------------
(* claims on the agreement of the figures of an aggregate (Spec)           *)

\* C24: in every aggregate a ranking returns, total_days (summed from the
\* date subtractions) equals the sum of the values of month_details (summed
\* from the day walks), and total_points equals the sum over month_details
\* of days times the weight of the month.
C24_AggregateFiguresAgree ==
    RankingReturned =>
        \A i \in 1..Len(ranking_data.rows) :
            /\ NoDuplicateKey(ranking_data.rows[i].month_details)
            /\ ranking_data.rows[i].total_days
                  = SumOfDays(ranking_data.rows[i].month_details, 12)
            /\ ranking_data.rows[i].total_points
                  = WeightedSum(ranking_data.rows[i].month_details,
                                get_month_points, 12)

\* an aggregate of two periods over two months of different weights
C24_Witness ==
    /\ RankingReturned
    /\ \E emp \in employees : Cardinality(PeriodsOf(emp.id)) = 2
    /\ \E i \in 1..Len(ranking_data.rows) :
          /\ Len(ranking_data.rows[i].month_details) = 2
          /\ ranking_data.rows[i].total_days = 4
          /\ ranking_data.rows[i].total_points = 2 * 11 + 2 * 3


----------------------------------------------------------------------------
(* claims on the /ranking view (SpecView)                                  *)

\* the total_points, and the total_days, of the periods i.. of a breakdown
RECURSIVE SumPeriodPoints(_, _)
SumPeriodPoints(rows, i) ==
    IF i > Len(rows) THEN 0 ELSE rows[i].total_points + SumPeriodPoints(rows, i + 1)

RECURSIVE SumPeriodDays(_, _)
SumPeriodDays(rows, i) ==
    IF i > Len(rows) THEN 0 ELSE rows[i].total_days + SumPeriodDays(rows, i + 1)

\* C25: for every entry the /ranking view hands to its template, two
\* employees of one name included, the periods of periods_breakdown are the
\* stored periods of the employee of the entry: their total_points sum to
\* the entry's total_points and their total_days to the entry's total_days.
C25_BreakdownIsOwnPeriods ==
    (RankingReturned /\ view.status = "returned") =>
        \A i \in 1..Len(view.rows) :
            /\ SumPeriodPoints(view.rows[i].periods_breakdown, 1)
                  = view.rows[i].total_points
            /\ SumPeriodDays(view.rows[i].periods_breakdown, 1)
                  = view.rows[i].total_days


----------------------------------------------------------------------------
(* claims on the /ferias form (SpecFerias)                                 *)

\* the stored vacation a listed record was made from
StoredOf(record) == CHOOSE v \in vacations : v.id = record.id

\* C26: a POST of /ferias with start date s and day count n that stores
\* anything has 1 <= n <= 365 and stores exactly one period, for the
\* employee chosen, from s to s + (n - 1) days; the inclusive length of the
\* period is n as get_employee_ranking counts it in total_days and as the
\* listing of /ferias displays it, and every listing displays for every
\* record the inclusive length of the stored period.
C26_PostStoresPeriodOfNDays ==
    /\ [][(last_call'.call = "ferias" /\ vacations' # vacations) =>
            \A employee_id \in FormEmployeeIds : \A start_date \in FormStartDates :
                \A days \in FormDays :
                    ferias_post(employee_id, start_date, days) =>
                        /\ 1 <= int(days).value /\ int(days).value <= 365
                        /\ \E v \in vacations' \ vacations :
                              /\ vacations' = vacations \cup {v}
                              /\ v.employee_id = int(employee_id).value
                              /\ strptime(v.start_date) = strptime(start_date)
                              /\ strptime(v.end_date)
                                    = DateAddDays(strptime(start_date),
                                                  int(days).value - 1)
                              /\ PeriodDays(v.start_date, v.end_date) = int(days).value
                              /\ \A emp \in employees : \A unit \in TimestampUnits :
                                    VacationRow(v, emp, unit).status = "returned" =>
                                        num_days(VacationRow(v, emp, unit).row, unit)
                                            = int(days).value]_vars
    /\ [][(/\ last_call' = Returns("ferias", "render_template")
            /\ employees # {}
            /\ ferias_get
            /\ view'.status = "returned") =>
            \A i \in 1..Len(view'.rows) :
                view'.rows[i].num_days
                    = PeriodDays(StoredOf(view'.rows[i]).start_date,
                                 StoredOf(view'.rows[i]).end_date)]_vars

\* a listing that displays 365 days for the period posted with start
\* 2023-01-01 and 365 days
C26_Witness ==
    /\ view.status = "returned"
    /\ last_call = Returns("ferias", "render_template")
    /\ \E i \in 1..Len(view.rows) :
          /\ view.rows[i].num_days = 365
          /\ view.rows[i].start_date = strftime_dmY(MkDate(2023, 1, 1))
          /\ view.rows[i].end_date = strftime_dmY(MkDate(2023, 12, 31))
          /\ \E v \in vacations :
                /\ v.id = view.rows[i].id
                /\ v.start_date = isoformat(MkDate(2023, 1, 1))
                /\ v.end_date = isoformat(MkDate(2023, 12, 31))

\* a request to one of the protected routes
ProtectedRequest == FuncionariosPost \/ DeleteFuncionario \/ ConfiguracoesPost

\* the request was answered by the redirect to login of the decorator
RedirectedToLogin ==
    /\ last_call'.status = "returned"
    /\ last_call'.value = "redirect login"
    /\ UNCHANGED <<storeVars, users, session>>

\* a protected request gets its body run only with 'username' in the
\* session: without it the request is answered by the redirect to login
BodyOnlyWithUser ==
    [][HasUser \/ RedirectedToLogin \/ ~ProtectedRequest]_vars

\* logout empties the session, and only a login POST that passed
\* verify_login puts 'username' back; until then BodyOnlyWithUser has every
\* protected request redirected
RedirectedAfterLogout ==
    /\ [][logout => ~DictHas(session', "username")]_vars
    /\ [][(~HasUser /\ DictHas(session', "username")) =>
            /\ \E username \in UsernameInputs : \E password \in PasswordInputs :
                   /\ login(username, password)
                   /\ verify_login(str_strip(username), password)
                   /\ DictGet(session', "username") = str_strip(username)]_vars

\* C27 as stated: the session holds 'username' only if the most recent login
\* POST of the session passed verify_login with that username; the body of a
\* protected route runs only while 'username' is in the session; after
\* logout every protected request is redirected to login until the next
\* successful login
C27_SessionProtocol ==
    /\ [](HasUser => last_login.recent = LoginPost(SessionUser, "True"))
    /\ BodyOnlyWithUser
    /\ RedirectedAfterLogout

\* C27 amended: the session holds 'username' only if the most recent login
\* POST that arrived while the session held no 'username' passed
\* verify_login with that username (a login POST of a session that holds
\* 'username' is redirected to the dashboard unexamined); the body of a
\* protected route runs only while 'username' is in the session; after
\* logout every protected request is redirected to login until the next
\* successful login
C27_SessionProtocolOfExaminedLogins ==
    /\ [](HasUser => last_login.checked = LoginPost(SessionUser, "True"))
    /\ BodyOnlyWithUser
    /\ RedirectedAfterLogout

\* a session that logged in, had a protected route store an employee, and
\* then had a further login POST redirected unexamined
C27_Witness ==
    /\ HasUser
    /\ last_login.checked = LoginPost(SessionUser, "True")
    /\ last_login.recent.status = "posted"
    /\ last_login.recent.verified = "not called"
    /\ employees # {}

\* the conditions /configuracoes checks before it changes the password
ChangeAllowed(current_password, new_password, confirm_password) ==
    /\ current_password.chars # <<>>
    /\ new_password.chars # <<>>
    /\ confirm_password.chars # <<>>
    /\ new_password = confirm_password
    /\ Len(new_password.chars) >= 6
    /\ Len(new_password.chars) <= 100
    /\ verify_login(SessionUser, current_password)

\* C28: a password change through /configuracoes succeeds only if the three
\* fields are non-empty, the new password equals its confirmation, its
\* length is between 6 and 100 and the current password passes verify_login
\* for the session user; after a success verify_login accepts the new
\* password for that user; on every failure path table users is unchanged;
\* change_password returns False and changes nothing for an empty username,
\* a new password shorter than 6 characters or a username that does not
\* exist
C28_PasswordChange ==
    /\ [][(last_call'.status = "returned" /\ last_call'.call = "configuracoes") =>
            /\ last_call'.value # "changed" => users' = users
            /\ \A current_password \in PasswordInputs :
               \A new_password \in PasswordInputs :
               \A confirm_password \in PasswordInputs :
                   (/\ last_call'.value = "changed"
                    /\ HasUser
                    /\ configuracoes_post(current_password, new_password,
                                          confirm_password)) =>
                       /\ ChangeAllowed(current_password, new_password,
                                        confirm_password)
                       /\ verify_login(SessionUser, new_password)']_vars
    /\ [][(last_call'.status = "returned" /\ last_call'.call = "change_password") =>
            \A username \in UsernameInputs : \A new_password \in PasswordInputs :
                (/\ ChangePasswordCall(username, new_password)
                 /\ \/ username.chars = <<>>
                    \/ Len(new_password.chars) < 6
                    \/ ~\E u \in users : u.username = username) =>
                    /\ last_call'.value = "False"
                    /\ users' = users]_vars

\* the session user changed the password through /configuracoes: the new
\* one is accepted and the one of init_db no longer
C28_Witness ==
    /\ last_call = Returns("configuracoes", "changed")
    /\ HasUser
    /\ verify_login(SessionUser, MkStr(<<"s", "e", "c", "r", "e", "t">>))
    /\ ~verify_login(SessionUser, AdminPassword)

\* no run of init_db is under way, and at least one was made
RunsOver ==
    /\ \A p \in InitProcs : init_db_runs[p].pc \in {"idle", "done", "failed"}
    /\ \E p \in InitProcs : init_db_runs[p].runs > 0

\* C29: after any number of init_db runs, one after another or interleaved
\* across processes, table users holds exactly one row named 'admin'; and
\* no step of an init_db run changes the row of 'admin' once it is there,
\* whatever password it holds
C29_InitDbIdempotent ==
    /\ [](Cardinality(RowsNamed(users, AdminName)) <= 1)
    /\ [](RunsOver => Cardinality(RowsNamed(users, AdminName)) = 1)
    /\ [][(/\ init_db_runs' # init_db_runs
            /\ RowsNamed(users, AdminName) # {}) => users' = users]_vars

\* both processes have run init_db, the password of 'admin' was changed,
\* and a second run of init_db has committed since
C29_Witness ==
    /\ RunsOver
    /\ last_call = Returns("init_db", "None")
    /\ \A p \in InitProcs : init_db_runs[p].runs > 0
    /\ \E p \in InitProcs :
          init_db_runs[p].pc = "done" /\ init_db_runs[p].runs = MaxInitRuns
    /\ RowsNamed(users, AdminName) # {}
    /\ \A u \in RowsNamed(users, AdminName) :
          u.password_hash.password = MkStr(<<"s", "e", "c", "r", "e", "t">>)

\* the rankings get_employee_ranking computes on the store of one instant
RankingsOf(instant) ==
    {Ranking(listing, rows) :
        listing \in EmployeesListings(instant.employees),
        rows \in VacationsListings(instant.vacations)}

\* C30: whatever add_employee, delete_employee and add_vacation calls of
\* other requests fall between its two reads, the ranking
\* get_employee_ranking returns is the ranking of the store as it was at
\* one instant between the start and the end of the call
C30_RankingOfOneSnapshot ==
    (ranking_call.pc = "returned" /\ ranking_data # NoValue) =>
        \E instant \in ranking_call.instants : ranking_data \in RankingsOf(instant)

====
